---- MODULE Spec2Model ----
(***************************************************************************)
(* Model of the matching and scoring core of the royalty-report            *)
(* reconciliation scripts: the row scorer (scripts/score_rows.py), the     *)
(* shared text normalizer, entity overrides and their controls             *)
(* (scripts/entity_overrides.py), the catalog sweep                        *)
(* (scripts/run_catalog_sweep.py), header resolution and header-row        *)
(* detection (scripts/field_detection.py,                                  *)
(* scripts/audit_known_good_mapping.py) and the synonym-table cleaner      *)
(* (scripts/clean_header_synonyms_yaml.py).  Each part has its own         *)
(* specification; the variables of the other parts stay idle.              *)
(*                                                                         *)
(* A Python str is a sequence of characters.  A character is a             *)
(* one-character string, or "U+XXXX" for a code point outside ASCII.       *)
(***************************************************************************)
EXTENDS Integers, Sequences, FiniteSets, TLC

VARIABLES
    pc,        \* position of the running main() or call
    cfg,       \* the scoring configuration returned by load_config
    ref,       \* the reference table read by main (list of records)
    ref_idx,   \* the index built by build_ref_index
    row,       \* the input row being scored (a dict: list of key/value pairs)
    res,       \* the ScoreResult of the last score_one call
    norm_in,   \* the argument of the last normalizer call
    norm_out,  \* its result
    norm_again, \* the result of normalizing norm_out again
    entity,    \* entity_matches_field: the EntityOverride argument
    field_value, \* entity_matches_field: the field_value argument
    match_out, \* entity_matches_field: the returned bool
    df,        \* run_catalog_sweep.main: the frame df
    overrides, \* run_catalog_sweep.main: the list returned by load_entity_overrides
    include_columns_matching, \* compute_entity_override_hits: the argument
    ctl_df,    \* apply_noisy_entity_controls: its argument df
    ctl_log,   \* apply_noisy_entity_controls: per controlled entity, the rows
               \* its co-evidence filter and its cap left out
    stats_df,  \* compute_entity_override_hits: the per-entity statistics returned
    top_n,     \* run_catalog_sweep.main: args.top_n
    top,       \* run_catalog_sweep.main: the frame top
    headers,   \* resolve_fields: the headers argument
    synonyms,  \* resolve_fields: the synonyms argument
    result,    \* resolve_fields: the returned dict
    config_json, \* load_config: the object read from the configuration file
    sheet,     \* audit_known_good_mapping.main: the cells of the sheet sh
    scan_rows, \* audit_known_good_mapping.main: args.header_scan_rows
    headers0,  \* audit_known_good_mapping.main: the default headers
    res0,      \* audit_known_good_mapping.main: their resolution
    best_idx,  \* audit_known_good_mapping.main: the detected header row
    best_sc,   \* audit_known_good_mapping.main: its score
    header_mode_used, \* audit_known_good_mapping.main
    yaml_in,   \* clean_header_synonyms_yaml.main: the lines of the input file
    yaml_out,  \* clean_header_synonyms_yaml.main: the lines written
    yaml_out2  \* the lines written when the cleaner runs on yaml_out

scorevars == <<cfg, ref, ref_idx, row, res>>
normvars == <<norm_in, norm_out, norm_again>>
matchvars == <<entity, field_value, match_out>>
sweepvars == <<df, overrides, include_columns_matching, ctl_df, ctl_log, stats_df, top_n, top>>
resolvevars == <<headers, synonyms, result>>
auditvars == <<sheet, scan_rows, headers0, res0, best_idx, best_sc, header_mode_used>>
cleanvars == <<yaml_in, yaml_out, yaml_out2>>

vars == <<pc, scorevars, normvars, matchvars, sweepvars, resolvevars, config_json,
          auditvars, cleanvars>>

\* the variables of a part of the program that is not running
MatchIdle == entity = <<>> /\ field_value = <<>> /\ match_out = <<>>
SweepIdle ==
    /\ df = <<>> /\ overrides = <<>> /\ include_columns_matching = <<>>
    /\ ctl_df = <<>> /\ ctl_log = <<>> /\ stats_df = <<>>
    /\ top_n = 0 /\ top = <<>>

ResolveIdle == headers = <<>> /\ synonyms = <<>> /\ result = <<>>

AuditIdle ==
    /\ sheet = <<>> /\ scan_rows = 0 /\ headers0 = <<>> /\ res0 = <<>>
    /\ best_idx = <<>> /\ best_sc = 0 /\ header_mode_used = ""

CleanIdle == yaml_in = <<>> /\ yaml_out = <<>> /\ yaml_out2 = <<>>

SideIdle == config_json = <<>> /\ AuditIdle /\ CleanIdle

----------------------------------------------------------------------------
(* Characters *)

LowerLetters == <<"a","b","c","d","e","f","g","h","i","j","k","l","m",
                  "n","o","p","q","r","s","t","u","v","w","x","y","z">>
UpperLetters == <<"A","B","C","D","E","F","G","H","I","J","K","L","M",
                  "N","O","P","Q","R","S","T","U","V","W","X","Y","Z">>

AsciiLower == {LowerLetters[i] : i \in 1..26}
AsciiUpper == {UpperLetters[i] : i \in 1..26}
AsciiDigit == {"0","1","2","3","4","5","6","7","8","9"}

\* U+0009 tab, U+00A0 no-break space: str.strip() and the regex class \s
SpaceChars == {" ", "U+0009", "U+00A0"}
IsSpace(c) == c \in SpaceChars

\* the regex class \d on str patterns: every Unicode decimal digit
\* (U+0663 is ARABIC-INDIC DIGIT THREE)
DigitChars == AsciiDigit \cup {"U+0663"}
IsDigitRe(c) == c \in DigitChars

\* the regex class [a-z0-9]
AsciiLowerDigit == AsciiLower \cup AsciiDigit
IsAz09(c) == c \in AsciiLowerDigit

\* the regex class \w: Unicode alphanumerics and the underscore
\* (U+00E9 e-acute, U+00C9 E-acute, U+00DF sharp s, U+210B script capital H,
\*  U+00B2 superscript two)
WordChars ==
    AsciiLower \cup AsciiUpper \cup AsciiDigit
        \cup {"_", "U+00E9", "U+00C9", "U+00DF", "U+210B", "U+00B2", "U+0663"}
IsWordChar(c) == c \in WordChars

\* str.lower() on one character
LowerMap ==
    [c \in AsciiUpper |-> LowerLetters[CHOOSE i \in 1..26 : UpperLetters[i] = c]]
LowerChar(c) ==
    IF c \in AsciiUpper THEN LowerMap[c]
    ELSE IF c = "U+00C9" THEN "U+00E9" ELSE c

\* str.upper() on one character (only used to build case variants of inputs)
UpperMap ==
    [c \in AsciiLower |-> UpperLetters[CHOOSE i \in 1..26 : LowerLetters[i] = c]]
UpperChar(c) ==
    IF c \in AsciiLower THEN UpperMap[c]
    ELSE IF c = "U+00E9" THEN "U+00C9" ELSE c

----------------------------------------------------------------------------
(* str primitives *)

None == <<"<None>">>

SetMin(S) == CHOOSE x \in S : \A y \in S : x <= y
SetMax(S) == CHOOSE x \in S : \A y \in S : x >= y

\* s.strip()
Strip(s) ==
    LET keep == {i \in 1..Len(s) : ~IsSpace(s[i])}
    IN  IF keep = {} THEN <<>> ELSE SubSeq(s, SetMin(keep), SetMax(keep))

\* s.lower()
Lower(s) == [i \in 1..Len(s) |-> LowerChar(s[i])]

\* s.upper()
Upper(s) == [i \in 1..Len(s) |-> UpperChar(s[i])]

\* re.sub(r"\s+", " ", s) on s[lo..hi]: the first character of every
\* whitespace run is kept, as a space
RECURSIVE SubWsRange(_, _, _)
SubWsRange(s, lo, hi) ==
    IF lo > hi THEN <<>>
    ELSE IF lo = hi
    THEN IF ~IsSpace(s[lo]) THEN <<s[lo]>>
         ELSE IF lo > 1 /\ IsSpace(s[lo - 1]) THEN <<>> ELSE <<" ">>
    ELSE LET mid == (lo + hi) \div 2
         IN  SubWsRange(s, lo, mid) \o SubWsRange(s, mid + 1, hi)

SubWs(s) == SubWsRange(s, 1, Len(s))

\* t in s
Contains(t, s) ==
    \E i \in 0..(Len(s) - Len(t)) : SubSeq(s, i + 1, i + Len(t)) = t

\* sep.join(parts)
RECURSIVE Join(_, _)
Join(sep, parts) ==
    IF Len(parts) = 0 THEN <<>>
    ELSE IF Len(parts) = 1 THEN parts[1]
    ELSE parts[1] \o sep \o Join(sep, Tail(parts))

\* a or b, on str-or-None values
Or(a, b) == IF a # None /\ a # <<>> THEN a ELSE b

----------------------------------------------------------------------------
(* scripts/score_rows.py: normalization and identifier formats *)

norm_text_nolower(x) ==
    IF x = None THEN <<>> ELSE SubWs(Strip(x))

norm_text(x) ==
    IF x = None THEN <<>> ELSE SubWs(Lower(Strip(x)))

norm_title(x) ==
    LET s  == norm_text(x)
        s1 == [i \in 1..Len(s) |-> IF s[i] = "U+2019" THEN "'" ELSE s[i]]
    IN  SelectSeq(s1, LAMBDA c : c \notin {"U+200B", "U+200C", "U+200D"})

\* re.split(r"[^\w]+", s) keeps the maximal runs of \w characters; the set
\* comprehension keeps those of length >= 3
tokenize(s) ==
    LET t == norm_text(s)
        n == Len(t)
        starts == {i \in 1..n : IsWordChar(t[i]) /\ (i = 1 \/ ~IsWordChar(t[i - 1]))}
        ends   == {j \in 1..n : IsWordChar(t[j]) /\ (j = n \/ ~IsWordChar(t[j + 1]))}
        EndOf(i) == SetMin({j \in ends : j >= i})
    IN  { SubSeq(t, i, EndOf(i)) : i \in {k \in starts : EndOf(k) - k + 1 >= 3} }

\* s[p..p+n-1] exists and holds only characters of the class
AllIn(s, p, n, class) ==
    /\ p + n - 1 <= Len(s)
    /\ \A k \in p..(p + n - 1) : s[k] \in class

\* an optional [- ] at position p: the position after it
OptSep(s, p) == IF p <= Len(s) /\ s[p] \in {"-", " "} THEN p + 1 ELSE p

is_isrc(x) ==
    LET s  == norm_text(x)
        p2 == OptSep(s, 3)
        p3 == OptSep(s, p2 + 3)
        p4 == OptSep(s, p3 + 2)
    IN  /\ AllIn(s, 1, 2, AsciiLower)
        /\ AllIn(s, p2, 3, AsciiLowerDigit)
        /\ AllIn(s, p3, 2, DigitChars)
        /\ AllIn(s, p4, 5, DigitChars)
        /\ Len(s) = p4 + 4

is_iswc(x) ==
    LET s == norm_text(x)
    IN  /\ Len(s) = 15
        /\ s[1] = "t" /\ s[2] = "-"
        /\ AllIn(s, 3, 3, DigitChars)
        /\ s[6] = "."
        /\ AllIn(s, 7, 3, DigitChars)
        /\ s[10] = "."
        /\ AllIn(s, 11, 3, DigitChars)
        /\ s[14] = "-"
        /\ IsDigitRe(s[15])

----------------------------------------------------------------------------
(* Python dicts with insertion order: a list of [k, v] pairs, keys unique *)

HasKey(d, k) == \E i \in 1..Len(d) : d[i].k = k

\* d.get(k, default)
DictGet(d, k, default) ==
    IF HasKey(d, k) THEN d[CHOOSE i \in 1..Len(d) : d[i].k = k].v ELSE default

\* list(d.values())
DictValues(d) == [i \in 1..Len(d) |-> d[i].v]

\* m.setdefault(k, []).append(r) on a map from str to list
SetDefaultAppend(m, k, r) ==
    IF k \in DOMAIN m THEN [m EXCEPT ![k] = Append(@, r)] ELSE m @@ (k :> <<r>>)

----------------------------------------------------------------------------
(* scripts/score_rows.py: load_config and build_ref_index *)

DefaultMinTitleLen == 8

\* raw is the parsed JSON object: a record that may lack any of the keys
load_config(raw) ==
    [ gold_tokens |->
        IF "gold_tokens" \in DOMAIN raw THEN raw.gold_tokens ELSE <<>>,
      negative_title_triggers |->
        IF "negative_title_triggers" \in DOMAIN raw
        THEN raw.negative_title_triggers ELSE <<>>,
      min_title_len_for_bronze |->
        IF "min_title_len_for_bronze" \in DOMAIN raw
        THEN raw.min_title_len_for_bronze ELSE DefaultMinTitleLen ]

\* the mutant indexes every non-empty identifier, well-formed or not
index_row_unchecked(idx, r) ==
    LET t    == norm_title(Or(r.title_norm, Or(r.title_raw, <<>>)))
        isrc == norm_text(r.isrc)
        iswc == norm_text(r.iswc)
        i1   == IF t # <<>>
                THEN [idx EXCEPT !.title = SetDefaultAppend(@, t, r)] ELSE idx
        i2   == IF isrc # <<>>
                THEN [i1 EXCEPT !.isrc = SetDefaultAppend(@, isrc, r)] ELSE i1
    IN  IF iswc # <<>>
        THEN [i2 EXCEPT !.iswc = SetDefaultAppend(@, iswc, r)] ELSE i2

\* the body of the loop of build_ref_index
index_row(idx, r) ==
    LET t    == norm_title(Or(r.title_norm, Or(r.title_raw, <<>>)))
        isrc == norm_text(r.isrc)
        iswc == norm_text(r.iswc)
        i1   == IF t # <<>>
                THEN [idx EXCEPT !.title = SetDefaultAppend(@, t, r)] ELSE idx
        i2   == IF isrc # <<>> /\ is_isrc(isrc)
                THEN [i1 EXCEPT !.isrc = SetDefaultAppend(@, isrc, r)] ELSE i1
    IN  IF iswc # <<>> /\ is_iswc(iswc)
        THEN [i2 EXCEPT !.iswc = SetDefaultAppend(@, iswc, r)] ELSE i2

EmptyIndex == [title |-> <<>>, isrc |-> <<>>, iswc |-> <<>>]

RECURSIVE IndexRows(_, _)
IndexRows(idx, rows) ==
    IF Len(rows) = 0 THEN idx
    ELSE IndexRows(index_row(idx, Head(rows)), Tail(rows))

build_ref_index(rows) == IndexRows(EmptyIndex, rows)

----------------------------------------------------------------------------
(* scripts/score_rows.py: score_one *)

ArtistKeys == <<"artist", "artists", "author", "authors", "artist_raw", "author_raw">>

row_title_raw(r) ==
    Or(DictGet(r, "title", None), Or(DictGet(r, "title_raw", None), <<>>))

artist_blob(r) ==
    LET ks == SelectSeq(ArtistKeys, LAMBDA k : HasKey(r, k))
    IN  Join(<<" ">>, [i \in 1..Len(ks) |-> DictGet(r, ks[i], <<>>)])

row_text(r) ==
    norm_text(Join(<<" ">>, <<row_title_raw(r), artist_blob(r)>> \o DictValues(r)))

\* gold_hits / neg_hits are non-empty
has_hits(tokens, text) ==
    \E i \in 1..Len(tokens) : tokens[i] # <<>> /\ Contains(tokens[i], text)

\* evidence_flags as it stands before the ID checks
base_flags(r, c) ==
    (IF has_hits(c.gold_tokens, row_text(r)) THEN <<"GOLD_TOKEN_HIT">> ELSE <<>>)
    \o (IF has_hits(c.negative_title_triggers, norm_title(row_title_raw(r)))
        THEN <<"NEGATIVE_TITLE_TRIGGER">> ELSE <<>>)

\* the mutant looks the identifier up as typed
row_isrc_as_typed(r) == Or(DictGet(r, "isrc", <<>>), DictGet(r, "isrc_raw", <<>>))

\* the mutant also removes the optional separators before the lookup
row_isrc_compact(r) ==
    SelectSeq(norm_text(Or(DictGet(r, "isrc", <<>>), DictGet(r, "isrc_raw", <<>>))),
              LAMBDA ch : ch \notin {"-", " "})

row_isrc(r) == norm_text(Or(DictGet(r, "isrc", <<>>), DictGet(r, "isrc_raw", <<>>)))

row_iswc(r) == norm_text(Or(DictGet(r, "iswc", <<>>), DictGet(r, "iswc_raw", <<>>)))

InFlags(f, flags) == \E i \in 1..Len(flags) : flags[i] = f

\* the mutant tries the ISWC before the ISRC
id_match_iswc_first(isrc_raw, iswc_raw, idx) ==
    IF iswc_raw # <<>> /\ is_iswc(iswc_raw) /\ iswc_raw \in DOMAIN idx.iswc
    THEN "ISWC_MATCH"
    ELSE IF isrc_raw # <<>> /\ is_isrc(isrc_raw) /\ isrc_raw \in DOMAIN idx.isrc
    THEN "ISRC_MATCH"
    ELSE ""

\* which of the two ID branches returns, "" when neither does
id_match(isrc_raw, iswc_raw, idx) ==
    IF isrc_raw # <<>> /\ is_isrc(isrc_raw) /\ isrc_raw \in DOMAIN idx.isrc
    THEN "ISRC_MATCH"
    ELSE IF iswc_raw # <<>> /\ is_iswc(iswc_raw) /\ iswc_raw \in DOMAIN idx.iswc
    THEN "ISWC_MATCH"
    ELSE ""

\* m is the list of the reference entry that backs the decision: empty or one
ScoreResult(tier, matched, count, flags, m) ==
    [ tier |-> tier, matched |-> matched, ref_match_count |-> count,
      evidence_flags |-> flags,
      ref_title_norm |-> IF m = <<>> THEN None ELSE m[1].title_norm,
      ref_isrc |-> IF m = <<>> THEN None ELSE m[1].isrc,
      ref_iswc |-> IF m = <<>> THEN None ELSE m[1].iswc ]

id_result(entries, flag) ==
    ScoreResult("Gold", TRUE, Len(entries), <<flag>>, <<entries[1]>>)

\* the mutant promotes on a gold token without any title match
no_cands_result_gold(flags) ==
    IF InFlags("GOLD_TOKEN_HIT", flags)
    THEN ScoreResult("Gold", TRUE, 0, flags, <<>>)
    ELSE ScoreResult("NoMatch", FALSE, 0, flags, <<>>)

no_cands_result(flags) == ScoreResult("NoMatch", FALSE, 0, flags, <<>>)

\* the mutant never lets a negative trigger suppress a title match
neg_suppressed_never(flags) == FALSE

neg_suppressed(flags) ==
    InFlags("NEGATIVE_TITLE_TRIGGER", flags) /\ ~InFlags("GOLD_TOKEN_HIT", flags)

overlap(row_toks, c) == Cardinality(row_toks \cap tokenize(Or(c.evidence_tokens, <<>>)))

best_overlap(row_toks, cands) ==
    SetMax({0} \cup {overlap(row_toks, cands[i]) : i \in 1..Len(cands)})

\* the mutant reports the first candidate whatever its overlap
best_cand_first(row_toks, cands) == cands[1]

\* the first candidate whose overlap is the best one
best_cand(row_toks, cands) ==
    cands[SetMin({i \in 1..Len(cands) :
                    overlap(row_toks, cands[i]) = best_overlap(row_toks, cands)})]

\* the mutant takes an artist without support as neutral
artist_result_lenient(row_toks, cands, flags) ==
    ScoreResult(IF InFlags("GOLD_TOKEN_HIT", flags) THEN "Gold" ELSE "Silver",
                TRUE, Len(cands), Append(flags, "ARTIST_TOKEN_OVERLAP"),
                <<best_cand(row_toks, cands)>>)

\* the mutant gives Gold to every corroborated title
artist_result_gold(row_toks, cands, flags) ==
    IF best_overlap(row_toks, cands) >= 1
    THEN ScoreResult("Gold", TRUE, Len(cands),
                     Append(flags, "ARTIST_TOKEN_OVERLAP"),
                     <<best_cand(row_toks, cands)>>)
    ELSE ScoreResult("NoMatch", FALSE, Len(cands),
                     Append(flags, "ARTIST_PRESENT_NO_SUPPORT"), <<>>)

\* the branch taken when the row has artist/author text
artist_result(row_toks, cands, flags) ==
    IF best_overlap(row_toks, cands) >= 1
    THEN ScoreResult(IF InFlags("GOLD_TOKEN_HIT", flags) THEN "Gold" ELSE "Silver",
                     TRUE, Len(cands), Append(flags, "ARTIST_TOKEN_OVERLAP"),
                     <<best_cand(row_toks, cands)>>)
    ELSE ScoreResult("NoMatch", FALSE, Len(cands),
                     Append(flags, "ARTIST_PRESENT_NO_SUPPORT"), <<>>)

\* the mutant forgets the minimum title length
title_only_result_any_len(title_norm, cands, flags, c) ==
    ScoreResult(IF InFlags("GOLD_TOKEN_HIT", flags) THEN "Gold" ELSE "Bronze",
                TRUE, Len(cands), flags, <<cands[1]>>)

\* the branch taken when the row has no artist/author text
title_only_result(title_norm, cands, flags, c) ==
    IF Len(title_norm) >= c.min_title_len_for_bronze
    THEN ScoreResult(IF InFlags("GOLD_TOKEN_HIT", flags) THEN "Gold" ELSE "Bronze",
                     TRUE, Len(cands), flags, <<cands[1]>>)
    ELSE ScoreResult("NoMatch", FALSE, Len(cands), flags, <<>>)

score_one(r, idx, c) ==
    LET title_norm  == norm_title(row_title_raw(r))
        artist_norm == norm_text(artist_blob(r))
        flags0      == base_flags(r, c)
        isrc_raw    == row_isrc(r)
        iswc_raw    == row_iswc(r)
        hit         == id_match(isrc_raw, iswc_raw, idx)
        cands       == IF title_norm # <<>> /\ title_norm \in DOMAIN idx.title
                       THEN idx.title[title_norm] ELSE <<>>
        flags1      == Append(flags0, "TITLE_EXACT")
    IN  IF hit = "ISRC_MATCH" THEN id_result(idx.isrc[isrc_raw], hit)
        ELSE IF hit = "ISWC_MATCH" THEN id_result(idx.iswc[iswc_raw], hit)
        ELSE IF Len(cands) = 0 THEN no_cands_result(flags0)
        ELSE IF neg_suppressed(flags1)
             THEN ScoreResult("NoMatch", FALSE, Len(cands), flags1, <<>>)
        ELSE IF artist_norm # <<>>
             THEN artist_result(tokenize(artist_norm), cands, flags1)
        ELSE title_only_result(title_norm, cands, flags1, c)

----------------------------------------------------------------------------
(* Inputs: the reference table, the configuration file and the input rows *)

\* the reference table has at most MaxRef rows
MaxRef == 2

Absent == <<"<absent>">>

\* rows of reference_truth.csv (columns title_raw, title_norm, isrc, iswc,
\* evidence_tokens), after fillna("").astype(str): two entries titled
\* "eleanor rigby" (one with the malformed ISRC "BR-TVW-13", one with ISRC
\* "BR-TVW-13-00013" and the malformed ISWC "T-1234") and one with title_raw
\* "Diana", the same ISRC in lower case and ISWC "T-123.456.789-0"
RefEntries ==
    { [ title_raw |-> <<>>,
        title_norm |-> <<"e","l","e","a","n","o","r"," ","r","i","g","b","y">>,
        isrc |-> <<"B","R","-","T","V","W","-","1","3">>,
        iswc |-> <<>>,
        evidence_tokens |-> <<"j","o","h","n"," ","l","e","n","n","o","n",";","p","a","u","l"," ","m","c","c","a","r","t","n","e","y">> ],
      [ title_raw |-> <<>>,
        title_norm |-> <<"e","l","e","a","n","o","r"," ","r","i","g","b","y">>,
        isrc |-> <<"B","R","-","T","V","W","-","1","3","-","0","0","0","1","3">>,
        iswc |-> <<"T","-","1","2","3","4">>,
        evidence_tokens |-> <<"b","e","a","t","l","e","s">> ],
      [ title_raw |-> <<"D","i","a","n","a">>,
        title_norm |-> <<>>,
        isrc |-> <<"b","r","-","t","v","w","-","1","3","-","0","0","0","1","3">>,
        iswc |-> <<"T","-","1","2","3",".","4","5","6",".","7","8","9","-","0">>,
        evidence_tokens |-> <<"t","a","g","o","r","e">> ] }

RefTables == UNION { [1..n -> RefEntries] : n \in 0..MaxRef }

\* the JSON objects of scoring_config.json: any key may be missing
\* (gold tokens "tagore", "rigby"; negative trigger "diana"; empty strings)
RawConfigs ==
    { [ gold_tokens |-> <<<<"t","a","g","o","r","e">>>>,
        negative_title_triggers |-> <<<<"d","i","a","n","a">>>> ],
      [ gold_tokens |-> <<<<>>, <<"r","i","g","b","y">>>>,
        negative_title_triggers |-> <<<<>>, <<"d","i","a","n","a">>>>,
        min_title_len_for_bronze |-> 4 ],
      [ min_title_len_for_bronze |-> 4 ] }

\* "Eleanor Rigby", E-acute + "leanor  RIGBY", "Eleanor-Rigby", "diana",
\* "unknown ", ""
TitlePool ==
    { <<"E","l","e","a","n","o","r"," ","R","i","g","b","y">>,
      <<"U+00C9","l","e","a","n","o","r"," "," ","R","I","G","B","Y">>,
      <<"E","l","e","a","n","o","r","-","R","i","g","b","y">>,
      <<"d","i","a","n","a">>,
      <<"u","n","k","n","o","w","n"," ">>,
      <<>> }

\* "John Lennon", "Os Beatles", "Z" + e-acute, " ", "tagore"
ArtistPool ==
    { <<"J","o","h","n"," ","L","e","n","n","o","n">>,
      <<"O","s"," ","B","e","a","t","l","e","s">>,
      <<"Z","U+00E9">>,
      <<" ">>,
      <<"t","a","g","o","r","e">> }

\* "BR-TVW-13-00013", the same between a blank and a tab, "brtvw1300013",
\* "BR-TVW-13", "tagore"
IsrcPool ==
    { <<"B","R","-","T","V","W","-","1","3","-","0","0","0","1","3">>,
      <<" ","B","R","-","T","V","W","-","1","3","-","0","0","0","1","3","U+0009">>,
      <<"b","r","t","v","w","1","3","0","0","0","1","3">>,
      <<"B","R","-","T","V","W","-","1","3">>,
      <<"t","a","g","o","r","e">> }

\* "T-123.456.789-0", "T-1234"
IswcPool ==
    { <<"T","-","1","2","3",".","4","5","6",".","7","8","9","-","0">>,
      <<"T","-","1","2","3","4">> }

\* "tagore"
NotePool ==
    { <<"t","a","g","o","r","e">> }


\* a dict of the given columns, the absent ones left out
MkRow(cols) == SelectSeq(cols, LAMBDA c : c.v # Absent)

Opt(S) == S \cup {Absent}

\* rows without identifiers
PlainRows ==
    { MkRow(<< [k |-> "title", v |-> t], [k |-> "artist", v |-> a] >>) :
        t \in TitlePool, a \in Opt(ArtistPool) }

\* rows with a column score_one does not name
NoteRows ==
    { MkRow(<< [k |-> "title", v |-> t], [k |-> "artist", v |-> a],
               [k |-> "note", v |-> n] >>) :
        t \in {<<"E","l","e","a","n","o","r"," ","R","i","g","b","y">>, <<"d","i","a","n","a">>, <<"u","n","k","n","o","w","n"," ">>},
        a \in {Absent, <<"J","o","h","n"," ","L","e","n","n","o","n">>, <<"Z","U+00E9">>},
        n \in NotePool }

\* rows with identifiers
IdRows ==
    { MkRow(<< [k |-> "title", v |-> ta[1]], [k |-> "artist", v |-> ta[2]],
               [k |-> "isrc", v |-> i], [k |-> "iswc", v |-> w] >>) :
        ta \in { <<<<"E","l","e","a","n","o","r"," ","R","i","g","b","y">>, Absent>>,
                 <<<<"d","i","a","n","a">>, <<"J","o","h","n"," ","L","e","n","n","o","n">>>> },
        i \in Opt(IsrcPool), w \in Opt(IswcPool) }

\* rows that use the alternative column names
RawRows ==
    { MkRow(<< [k |-> "title", v |-> t], [k |-> "title_raw", v |-> <<"E","l","e","a","n","o","r"," ","R","i","g","b","y">>],
               [k |-> "author", v |-> a], [k |-> "author_raw", v |-> <<"L","e","n","n","o","n">>],
               [k |-> "isrc", v |-> i], [k |-> "isrc_raw", v |-> <<"B","R","-","T","V","W","-","1","3","-","0","0","0","1","3">>] >>) :
        t \in {Absent, <<>>, <<" ">>},
        a \in {Absent, <<"P","a","u","l">>},
        i \in {Absent, <<>>, <<"B","R","-","T","V","W","-","1","3">>} }

Rows == PlainRows \cup NoteRows \cup IdRows \cup RawRows


----------------------------------------------------------------------------
(* scripts/score_rows.py: main *)

NoResult == ScoreResult("", FALSE, 0, <<>>, <<>>)

NoConfig == load_config([min_title_len_for_bronze |-> DefaultMinTitleLen])

NormIdle == norm_in = None /\ norm_out = None /\ norm_again = None

Init ==
    /\ pc = "start"
    /\ cfg = NoConfig
    /\ ref = <<>>
    /\ ref_idx = EmptyIndex
    /\ row = <<>>
    /\ res = NoResult
    /\ NormIdle
    /\ MatchIdle /\ SweepIdle /\ ResolveIdle /\ SideIdle

\* cfg = load_config(Path(args.config))
LoadConfig ==
    /\ pc = "start"
    /\ \E raw \in RawConfigs : config_json' = <<raw>> /\ cfg' = load_config(raw)
    /\ pc' = "config"
    /\ UNCHANGED <<ref, ref_idx, row, res, norm_in, norm_out, norm_again, matchvars, sweepvars,
                   resolvevars, auditvars, cleanvars>>

\* ref = pd.read_csv(args.reference); ref_idx = build_ref_index(ref)
ReadReference ==
    /\ pc = "config"
    /\ \E t \in RefTables :
         /\ ref' = t
         /\ ref_idx' = build_ref_index(t)
    /\ pc' = "ready"
    /\ UNCHANGED <<cfg, row, res, norm_in, norm_out, norm_again, matchvars, sweepvars, resolvevars, config_json, auditvars, cleanvars>>

\* for _, r in inp.iterrows(): rr = r.to_dict()
NextRow ==
    /\ pc = "ready"
    /\ \E r \in Rows : row' = r
    /\ pc' = "row"
    /\ UNCHANGED <<cfg, ref, ref_idx, res, norm_in, norm_out, norm_again, matchvars, sweepvars, resolvevars, config_json, auditvars, cleanvars>>

\* res = score_one(rr, ref_idx, cfg)
ScoreRow ==
    /\ pc = "row"
    /\ res' = score_one(row, ref_idx, cfg)
    /\ pc' = "scored"
    /\ UNCHANGED <<cfg, ref, ref_idx, row, norm_in, norm_out, norm_again, matchvars, sweepvars, resolvevars, config_json, auditvars, cleanvars>>

\* out_rows.append(out): the loop goes on to the next row
EmitRow ==
    /\ pc = "scored"
    /\ row' = <<>>
    /\ res' = NoResult
    /\ pc' = "ready"
    /\ UNCHANGED <<cfg, ref, ref_idx, norm_in, norm_out, norm_again, matchvars, sweepvars, resolvevars, config_json, auditvars, cleanvars>>

\* the loop ends; the output and the summary are written
Finish ==
    /\ pc = "ready"
    /\ pc' = "done"
    /\ UNCHANGED <<cfg, ref, ref_idx, row, res, norm_in, norm_out, norm_again, matchvars, sweepvars, resolvevars, config_json, auditvars, cleanvars>>

Next == LoadConfig \/ ReadReference \/ NextRow \/ ScoreRow \/ EmitRow \/ Finish

Spec == Init /\ [][Next]_vars

----------------------------------------------------------------------------
(* What a scored row satisfied on entry to score_one, stated on the row,   *)
(* the index and the configuration                                         *)

Scored == pc = "scored"

RowTitleNorm == norm_title(row_title_raw(row))

RowArtistNorm == norm_text(artist_blob(row))

\* the identifier score_one looks up: the isrc column, else isrc_raw
RowIsrcKey == norm_text(Or(DictGet(row, "isrc", <<>>), DictGet(row, "isrc_raw", <<>>)))
RowIswcKey == norm_text(Or(DictGet(row, "iswc", <<>>), DictGet(row, "iswc_raw", <<>>)))

\* the row's isrc / iswc column is well-formed and indexed
RowIsrcIndexed ==
    LET x == norm_text(DictGet(row, "isrc", <<>>))
    IN  is_isrc(x) /\ x \in DOMAIN ref_idx.isrc
RowIswcIndexed ==
    LET x == norm_text(DictGet(row, "iswc", <<>>))
    IN  is_iswc(x) /\ x \in DOMAIN ref_idx.iswc

NoIsrcMatch == ~(is_isrc(RowIsrcKey) /\ RowIsrcKey \in DOMAIN ref_idx.isrc)
NoIswcMatch == ~(is_iswc(RowIswcKey) /\ RowIswcKey \in DOMAIN ref_idx.iswc)
NoIdMatch == NoIsrcMatch /\ NoIswcMatch

TitleMatches == RowTitleNorm # <<>> /\ RowTitleNorm \in DOMAIN ref_idx.title

TitleCands == IF TitleMatches THEN ref_idx.title[RowTitleNorm] ELSE <<>>

\* a configured (non-empty) gold token occurs in the row text
GoldPresent ==
    \E i \in 1..Len(cfg.gold_tokens) :
        cfg.gold_tokens[i] # <<>> /\ Contains(cfg.gold_tokens[i], row_text(row))

\* the normalized title contains a configured (non-empty) negative trigger
NegTrigger ==
    \E i \in 1..Len(cfg.negative_title_triggers) :
        /\ cfg.negative_title_triggers[i] # <<>>
        /\ Contains(cfg.negative_title_triggers[i], RowTitleNorm)

NegSuppressed == NegTrigger /\ ~GoldPresent

\* some / no title-matching entry shares a length>=3 token with the artist text
ArtistSupported ==
    \E i \in 1..Len(TitleCands) :
        tokenize(RowArtistNorm) \cap tokenize(TitleCands[i].evidence_tokens) # {}

HasFlag(f) == \E i \in 1..Len(res.evidence_flags) : res.evidence_flags[i] = f

BackedBy(e) ==
    /\ res.ref_title_norm = e.title_norm
    /\ res.ref_isrc = e.isrc
    /\ res.ref_iswc = e.iswc

----------------------------------------------------------------------------
(* Claims about score_one *)

\* C1: a row whose isrc column is well-formed and indexed is scored Gold,
\* matched, with evidence_flags exactly [ISRC_MATCH], whatever else it holds.
C1_IsrcMatchIsGold ==
    (Scored /\ RowIsrcIndexed) =>
        /\ res.tier = "Gold"
        /\ res.matched
        /\ res.evidence_flags = <<"ISRC_MATCH">>

\* an indexed ISRC on a row whose title matches, carries a negative trigger
\* and comes with artist text
C1_Witness ==
    /\ Scored /\ RowIsrcIndexed
    /\ TitleMatches /\ NegTrigger /\ RowArtistNorm # <<>>

\* C2: the ISRC branch is tried before the ISWC branch and both before the
\* title: an indexed ISWC without ISRC match gives Gold [ISWC_MATCH] backed by
\* the first entry of the ISWC list; when both match the result is ISRC_MATCH
\* backed by the first entry of the ISRC list; without ID match no ID flag.
C2_BranchOrder ==
    Scored =>
        /\ RowIsrcIndexed =>
            /\ res.evidence_flags = <<"ISRC_MATCH">>
            /\ BackedBy(ref_idx.isrc[RowIsrcKey][1])
            /\ res.ref_match_count = Len(ref_idx.isrc[RowIsrcKey])
        /\ (NoIsrcMatch /\ RowIswcIndexed) =>
            /\ res.tier = "Gold" /\ res.matched
            /\ res.evidence_flags = <<"ISWC_MATCH">>
            /\ BackedBy(ref_idx.iswc[RowIswcKey][1])
            /\ res.ref_match_count = Len(ref_idx.iswc[RowIswcKey])
        /\ NoIdMatch => ~HasFlag("ISRC_MATCH") /\ ~HasFlag("ISWC_MATCH")

\* both identifiers are indexed, under different first entries
C2_Witness ==
    /\ Scored /\ RowIsrcIndexed /\ RowIswcIndexed
    /\ ref_idx.isrc[RowIsrcKey][1] # ref_idx.iswc[RowIswcKey][1]
    /\ HasFlag("ISRC_MATCH")

\* C3: without ID match, a row whose normalized title is empty or not indexed
\* is NoMatch, unmatched, with ref_match_count 0, gold token or not.
C3_NoTitleNoMatch ==
    (Scored /\ NoIdMatch /\ ~TitleMatches) =>
        /\ res.tier = "NoMatch"
        /\ ~res.matched
        /\ res.ref_match_count = 0

\* a row with a gold token and no title match
C3_Witness ==
    /\ Scored /\ NoIdMatch /\ ~TitleMatches
    /\ GoldPresent /\ HasFlag("GOLD_TOKEN_HIT")

\* C4: without ID match, an exactly matching title that contains a negative
\* trigger, on a row without gold token, is NoMatch with the flags
\* NEGATIVE_TITLE_TRIGGER and TITLE_EXACT, whatever the artist text.
C4_NegativeTriggerSuppresses ==
    (Scored /\ NoIdMatch /\ TitleMatches /\ NegTrigger /\ ~GoldPresent) =>
        /\ res.tier = "NoMatch"
        /\ ~res.matched
        /\ HasFlag("NEGATIVE_TITLE_TRIGGER")
        /\ HasFlag("TITLE_EXACT")

\* a suppressed title that is long enough for Bronze
C4_Witness ==
    /\ Scored /\ NoIdMatch /\ TitleMatches /\ NegTrigger /\ ~GoldPresent
    /\ Len(RowTitleNorm) >= cfg.min_title_len_for_bronze
    /\ RowArtistNorm = <<>>

\* C5 as stated: without ID match, a matching title with artist text that no
\* title-matching entry supports is NoMatch with flag ARTIST_PRESENT_NO_SUPPORT.
C5_Original ==
    (Scored /\ NoIdMatch /\ TitleMatches /\ RowArtistNorm # <<>> /\ ~ArtistSupported) =>
        /\ res.tier = "NoMatch"
        /\ HasFlag("ARTIST_PRESENT_NO_SUPPORT")

\* C5 amended: such a row is always NoMatch and unmatched; it carries the flag
\* ARTIST_PRESENT_NO_SUPPORT when the negative-trigger check has not already
\* abstained, a gold token present or not.
C5_ArtistNoSupportAbstains ==
    (Scored /\ NoIdMatch /\ TitleMatches /\ RowArtistNorm # <<>> /\ ~ArtistSupported) =>
        /\ res.tier = "NoMatch"
        /\ ~res.matched
        /\ ~NegSuppressed => HasFlag("ARTIST_PRESENT_NO_SUPPORT")

\* unsupported artist text on a row with a gold token
C5_Witness ==
    /\ Scored /\ NoIdMatch /\ TitleMatches /\ RowArtistNorm # <<>> /\ ~ArtistSupported
    /\ GoldPresent
    /\ HasFlag("ARTIST_PRESENT_NO_SUPPORT")

\* C6: without ID match, a matching title that is not suppressed, with artist
\* text supported by some title-matching entry, is matched with TITLE_EXACT and
\* ARTIST_TOKEN_OVERLAP, Gold if a gold token is present and Silver otherwise.
C6_ArtistOverlapTier ==
    (Scored /\ NoIdMatch /\ TitleMatches /\ ~NegSuppressed /\ ArtistSupported) =>
        /\ res.matched
        /\ HasFlag("TITLE_EXACT")
        /\ HasFlag("ARTIST_TOKEN_OVERLAP")
        /\ res.tier = IF GoldPresent THEN "Gold" ELSE "Silver"

\* a corroborated title without gold token, the support coming from the
\* second of two title-matching entries
C6_Witness ==
    /\ Scored /\ NoIdMatch /\ TitleMatches /\ ~NegSuppressed /\ ArtistSupported
    /\ ~GoldPresent
    /\ Len(TitleCands) = 2
    /\ tokenize(RowArtistNorm) \cap tokenize(TitleCands[1].evidence_tokens) = {}
    /\ res.tier = "Silver"

\* the title-only path yields a match
TitleOnlyAllowed ==
    /\ TitleMatches
    /\ ~NegSuppressed
    /\ Len(RowTitleNorm) >= cfg.min_title_len_for_bronze

\* C7 as stated: without ID match and without artist text the tier is Bronze
\* when the title matches, is not suppressed and is long enough, else NoMatch.
C7_Original ==
    (Scored /\ NoIdMatch /\ RowArtistNorm = <<>>) =>
        res.tier = IF TitleOnlyAllowed THEN "Bronze" ELSE "NoMatch"

\* C7 amended: on that path the tier is Gold when a gold token occurs in the
\* row text and Bronze when none does; a title-only match without gold token
\* is never above Bronze.
C7_TitleOnlyTier ==
    (Scored /\ NoIdMatch /\ RowArtistNorm = <<>>) =>
        res.tier = IF ~TitleOnlyAllowed THEN "NoMatch"
                   ELSE IF GoldPresent THEN "Gold" ELSE "Bronze"

\* a Bronze title-only match under the default minimum length
C7_Witness ==
    /\ Scored /\ NoIdMatch /\ RowArtistNorm = <<>>
    /\ cfg.min_title_len_for_bronze = DefaultMinTitleLen
    /\ res.tier = "Bronze"

\* del d[k]
DictRemove(d, k) == SelectSeq(d, LAMBDA c : c.k # k)

\* d[k] = v for a key d has
DictSet(d, k, v) == [i \in 1..Len(d) |-> IF d[i].k = k THEN [k |-> k, v |-> v] ELSE d[i]]

\* a configured (non-empty) gold token occurs in the text of row r
GoldIn(r) ==
    \E i \in 1..Len(cfg.gold_tokens) :
        cfg.gold_tokens[i] # <<>> /\ Contains(cfg.gold_tokens[i], row_text(r))

\* every key of by_isrc / by_iswc passes the format check
IndexKeysWellFormed ==
    /\ \A k \in DOMAIN ref_idx.isrc : is_isrc(k)
    /\ \A k \in DOMAIN ref_idx.iswc : is_iswc(k)

\* the row holds a non-empty value in column k that fails the format check
MalformedIsrc == DictGet(row, "isrc", <<>>) # <<>> /\ ~is_isrc(DictGet(row, "isrc", <<>>))
MalformedIswc == DictGet(row, "iswc", <<>>) # <<>> /\ ~is_iswc(DictGet(row, "iswc", <<>>))

\* C8 as stated: only well-formed identifiers are indexed, and a row with a
\* malformed identifier gets no ID flag from it and exactly the result of the
\* same row with that identifier removed.
C8_Original ==
    /\ IndexKeysWellFormed
    /\ (Scored /\ MalformedIsrc) =>
        /\ ~HasFlag("ISRC_MATCH")
        /\ res = score_one(DictRemove(row, "isrc"), ref_idx, cfg)
    /\ (Scored /\ MalformedIswc) =>
        /\ ~HasFlag("ISWC_MATCH")
        /\ res = score_one(DictRemove(row, "iswc"), ref_idx, cfg)

\* C8 amended: only well-formed identifiers are indexed, and a row with a
\* malformed identifier gets no ID flag from it; its result is that of the row
\* with the identifier removed provided the row has no isrc_raw / iswc_raw
\* column to fall back to and the removal does not change whether a gold token
\* occurs in the row text (the identifier's text counts as row text).
C8_MalformedIdAbsent ==
    /\ IndexKeysWellFormed
    /\ (Scored /\ MalformedIsrc) =>
        /\ ~HasFlag("ISRC_MATCH")
        /\ (~HasKey(row, "isrc_raw") /\ GoldIn(DictRemove(row, "isrc")) = GoldIn(row)) =>
              res = score_one(DictRemove(row, "isrc"), ref_idx, cfg)
    /\ (Scored /\ MalformedIswc) =>
        /\ ~HasFlag("ISWC_MATCH")
        /\ (~HasKey(row, "iswc_raw") /\ GoldIn(DictRemove(row, "iswc")) = GoldIn(row)) =>
              res = score_one(DictRemove(row, "iswc"), ref_idx, cfg)

\* a malformed ISRC on a matched row, against a table that holds a malformed
\* ISRC too
C8_Witness ==
    /\ Scored /\ MalformedIsrc /\ ~HasKey(row, "isrc_raw")
    /\ GoldIn(DictRemove(row, "isrc")) = GoldIn(row)
    /\ res.matched
    /\ \E i \in 1..Len(ref) : ref[i].isrc # <<>> /\ ~is_isrc(ref[i].isrc)

\* e-acute and E-acute without the accent
FoldAccents(s) ==
    [i \in 1..Len(s) |-> IF s[i] = "U+00E9" THEN "e"
                         ELSE IF s[i] = "U+00C9" THEN "E" ELSE s[i]]

\* hyphens replaced by spaces
DropPunct(s) == [i \in 1..Len(s) |-> IF s[i] = "-" THEN " " ELSE s[i]]

RowWithTitle(v) == DictSet(row, "title", v)

\* C9 as stated: row titles that differ only in case, accents or punctuation
\* get the same result against the same index.
C9_Original ==
    (Scored /\ HasKey(row, "title")) =>
        \A v \in { Upper(DictGet(row, "title", <<>>)), Lower(DictGet(row, "title", <<>>)),
                   FoldAccents(DictGet(row, "title", <<>>)),
                   DropPunct(DictGet(row, "title", <<>>)) }
                    \ {DictGet(row, "title", <<>>)} :
            score_one(RowWithTitle(v), ref_idx, cfg) = res

\* C9 amended: titles are normalized by norm_title (trim, lowercase,
\* whitespace collapse) at indexing and at lookup, so row titles that differ
\* only in case get the same result against the same index.
C9_CaseInsensitiveTitle ==
    (Scored /\ HasKey(row, "title")) =>
        \A v \in { Upper(DictGet(row, "title", <<>>)), Lower(DictGet(row, "title", <<>>)) }
                    \ {DictGet(row, "title", <<>>)} :
            score_one(RowWithTitle(v), ref_idx, cfg) = res

\* a mixed-case title that matched by title
C9_Witness ==
    /\ Scored /\ HasKey(row, "title")
    /\ Upper(DictGet(row, "title", <<>>)) # DictGet(row, "title", <<>>)
    /\ Lower(DictGet(row, "title", <<>>)) # DictGet(row, "title", <<>>)
    /\ HasFlag("TITLE_EXACT") /\ res.matched

----------------------------------------------------------------------------
(* scripts/entity_overrides.py, scripts/field_detection.py: the normalizer *)

\* str.casefold() on one character: a str
CaseFoldChar(c) ==
    IF c = "U+00DF" THEN <<"s", "s">> ELSE <<LowerChar(c)>>

\* unicodedata.normalize("NFKD", c) on one character: a str
\* (U+0301 is COMBINING ACUTE ACCENT)
NfkdChar(c) ==
    CASE c = "U+00E9" -> <<"e", "U+0301">>
      [] c = "U+00C9" -> <<"E", "U+0301">>
      [] c = "U+210B" -> <<"H">>
      [] c = "U+00B2" -> <<"2">>
      [] c = "U+00A0" -> <<" ">>
      [] OTHER -> <<c>>

\* unicodedata.combining(c) != 0
IsCombining(c) == c = "U+0301"

\* the strings F[c] for the characters of s[lo..hi], concatenated
RECURSIVE ConcatMap(_, _, _, _)
ConcatMap(F, s, lo, hi) ==
    IF lo > hi THEN <<>>
    ELSE IF lo = hi THEN F[s[lo]]
    ELSE LET mid == (lo + hi) \div 2
         IN  ConcatMap(F, s, lo, mid) \o ConcatMap(F, s, mid + 1, hi)

CharsOf(s) == {s[i] : i \in 1..Len(s)}

\* s.casefold()
CaseFold(s) == ConcatMap([c \in CharsOf(s) |-> CaseFoldChar(c)], s, 1, Len(s))

strip_accents(s) ==
    SelectSeq(ConcatMap([c \in CharsOf(s) |-> NfkdChar(c)], s, 1, Len(s)),
              LAMBDA c : ~IsCombining(c))

\* _NON_ALNUM.sub(" ", s): every run of characters outside [0-9a-z] becomes
\* one space
NonAlnumSub(s) ==
    SubWs([i \in 1..Len(s) |-> IF IsAz09(s[i]) THEN s[i] ELSE " "])

\* the mutant forgets the final strip()
norm_text_nostrip(s) ==
    LET s0 == IF s = None THEN <<>> ELSE s
    IN  SubWs(NonAlnumSub(strip_accents(CaseFold(s0))))

\* entity_overrides.norm_text
entity_norm_text(s) ==
    LET s0 == IF s = None THEN <<>> ELSE s
    IN  Strip(SubWs(NonAlnumSub(strip_accents(CaseFold(s0)))))

\* field_detection.norm_header
norm_header(s) ==
    LET s0 == IF s = None THEN <<>> ELSE s
    IN  Strip(SubWs(NonAlnumSub(strip_accents(CaseFold(s0)))))

\* the normalizer's arguments have at most MaxNormLen characters
MaxNormLen == 3

NormAlphabet ==
    {"a", "A", "1", " ", "-", "U+00E9", "U+0301", "U+00DF", "U+210B", "U+00B2"}

NormInputs == {None} \cup UNION { [1..n -> NormAlphabet] : n \in 0..MaxNormLen }

ScorerIdle ==
    /\ cfg = NoConfig
    /\ ref = <<>>
    /\ ref_idx = EmptyIndex
    /\ row = <<>>
    /\ res = NoResult

InitNorm ==
    /\ pc = "norm"
    /\ ScorerIdle
    /\ norm_in \in NormInputs
    /\ norm_out = None
    /\ norm_again = None
    /\ MatchIdle /\ SweepIdle /\ ResolveIdle /\ SideIdle

\* norm_text(x)
NormText ==
    /\ pc = "norm"
    /\ norm_out' = entity_norm_text(norm_in)
    /\ pc' = "norm_text"
    /\ UNCHANGED <<cfg, ref, ref_idx, row, res, norm_in, norm_again, matchvars, sweepvars, resolvevars, config_json, auditvars, cleanvars>>

\* norm_text(norm_text(x))
NormTextAgain ==
    /\ pc = "norm_text"
    /\ norm_again' = entity_norm_text(norm_out)
    /\ pc' = "norm_text_twice"
    /\ UNCHANGED <<cfg, ref, ref_idx, row, res, norm_in, norm_out, matchvars, sweepvars, resolvevars, config_json, auditvars, cleanvars>>

\* norm_header(x)
NormHeader ==
    /\ pc = "norm"
    /\ norm_out' = norm_header(norm_in)
    /\ pc' = "norm_header"
    /\ UNCHANGED <<cfg, ref, ref_idx, row, res, norm_in, norm_again, matchvars, sweepvars, resolvevars, config_json, auditvars, cleanvars>>

\* norm_header(norm_header(x))
NormHeaderAgain ==
    /\ pc = "norm_header"
    /\ norm_again' = norm_header(norm_out)
    /\ pc' = "norm_header_twice"
    /\ UNCHANGED <<cfg, ref, ref_idx, row, res, norm_in, norm_out, matchvars, sweepvars, resolvevars, config_json, auditvars, cleanvars>>

NextNorm == NormText \/ NormTextAgain \/ NormHeader \/ NormHeaderAgain

SpecNorm == InitNorm /\ [][NextNorm]_vars

\* only 0-9 and a-z, separated by single spaces, no space at either end
IsNormalized(s) ==
    /\ \A i \in 1..Len(s) : IsAz09(s[i]) \/ s[i] = " "
    /\ \A i \in 1..Len(s) : s[i] = " " => (i > 1 /\ i < Len(s) /\ s[i + 1] # " ")

\* C10: norm_text and norm_header are total and idempotent, and their output
\* holds only 0-9 and a-z separated by single spaces, without a space at
\* either end; None gives the empty string.
C10_NormalizerIdempotent ==
    /\ pc \in {"norm_text", "norm_header", "norm_text_twice", "norm_header_twice"} =>
          /\ IsNormalized(norm_out)
          /\ norm_in = None => norm_out = <<>>
    /\ pc \in {"norm_text_twice", "norm_header_twice"} => norm_again = norm_out

\* a capital, an accented letter and punctuation, normalized twice
C10_Witness ==
    /\ pc = "norm_text_twice"
    /\ norm_in = <<"A", "U+00E9", "-">>
    /\ norm_out = <<"a", "e">>
    /\ norm_again = <<"a", "e">>

----------------------------------------------------------------------------
(* scripts/entity_overrides.py: entities and the field match *)

\* the elements of a set of integers, in increasing order
Ascending(S) ==
    [k \in 1..Cardinality(S) |-> CHOOSE i \in S : Cardinality({j \in S : j <= i}) = k]

\* [t for t in norm_text(s).split(" ") if t]
tokenize_norm(s) ==
    LET t == entity_norm_text(s)
        n == Len(t)
        starts == Ascending({i \in 1..n : t[i] # " " /\ (i = 1 \/ t[i - 1] = " ")})
        ends   == {j \in 1..n : t[j] # " " /\ (j = n \/ t[j + 1] = " ")}
    IN  [k \in 1..Len(starts) |-> SubSeq(t, starts[k], SetMin({j \in ends : j >= starts[k]}))]

\* "".join(tokenize_norm(s))
joined_norm(s) == Join(<<>>, tokenize_norm(s))

\* the dataclass EntityOverride; per_term_cap is <<>> for None, <<n>> for n
EntityOverride(raw, en, et, pr, rc, cap, notes) ==
    [ entity_raw |-> raw, entity_norm |-> en, entity_type |-> et, priority |-> pr,
      requires_coevidence |-> rc, per_term_cap |-> cap, notes |-> notes ]

\* EntityOverride.tokens
entity_tokens(e) == tokenize_norm(e.entity_norm)

Range(s) == {s[i] : i \in 1..Len(s)}

field_token_set(value) == Range(tokenize_norm(value))

\* the mutant accepts a field that holds any one of the entity's tokens
entity_matches_field_any(e, value) ==
    LET toks == entity_tokens(e)
    IN  /\ toks # <<>>
        /\ \/ \E i \in 1..Len(toks) : toks[i] \in field_token_set(value)
           \/ /\ e.priority >= 4
              /\ Join(<<>>, toks) # <<>>
              /\ Contains(Join(<<>>, toks), joined_norm(value))

entity_matches_field(e, value) ==
    LET toks == entity_tokens(e)
    IN  /\ toks # <<>>
        /\ \/ \A i \in 1..Len(toks) : toks[i] \in field_token_set(value)
           \/ /\ e.priority >= 4
              /\ Join(<<>>, toks) # <<>>
              /\ Contains(Join(<<>>, toks), joined_norm(value))

\* entity names: "cordel do fogo", "Dudu Falcao", "Ana", "(!)", ""
EntityNames ==
    { <<"c","o","r","d","e","l"," ","d","o"," ","f","o","g","o">>, <<"D","u","d","u"," ","F","a","l","c","a","o">>, <<"A","n","a">>, <<"(","!",")">>, <<>> }

\* EntityOverride objects as the tests and load_entity_overrides build them
EntityArgs ==
    { EntityOverride(n, n, "PERSON", p, 0, <<>>, <<>>) : n \in EntityNames, p \in {0, 3, 4, 5} }

\* field values: "Cordel do Fogo Encantado", "Cordel", "fogo, do CORDEL",
\* "CordeldoFogo", "Cordel do Fog", "Dudu Falcao", "DuduFalcao; X", "Falcao",
\* "Anabela", "Ana-Bela", "", None
FieldValues ==
    { <<"C","o","r","d","e","l"," ","d","o"," ","F","o","g","o"," ","E","n","c","a","n","t","a","d","o">>, <<"C","o","r","d","e","l">>, <<"f","o","g","o",","," ","d","o"," ","C","O","R","D","E","L">>, <<"C","o","r","d","e","l","d","o","F","o","g","o">>,
      <<"C","o","r","d","e","l"," ","d","o"," ","F","o","g">>, <<"D","u","d","u"," ","F","a","l","c","a","o">>, <<"D","u","d","u","F","a","l","c","a","o",";"," ","X">>, <<"F","a","l","c","a","o">>,
      <<"A","n","a","b","e","l","a">>, <<"A","n","a","-","B","e","l","a">>, <<>>, None }

ScorerNormIdle == ScorerIdle /\ NormIdle

InitMatch ==
    /\ pc = "match"
    /\ ScorerNormIdle /\ SweepIdle /\ ResolveIdle /\ SideIdle
    /\ entity \in EntityArgs
    /\ field_value \in FieldValues
    /\ match_out = <<>>

\* entity_matches_field(entity, field_value)
MatchField ==
    /\ pc = "match"
    /\ match_out' = <<entity_matches_field(entity, field_value)>>
    /\ pc' = "matched"
    /\ UNCHANGED <<scorevars, normvars, entity, field_value, sweepvars, resolvevars, config_json, auditvars, cleanvars>>

NextMatch == MatchField

SpecMatch == InitMatch /\ [][NextMatch]_vars

\* the normalized text between two spaces (or the ends) of the normalized value
WholeTokenOf(t, value) ==
    Contains(<<" ">> \o t \o <<" ">>, <<" ">> \o entity_norm_text(value) \o <<" ">>)

\* the normalized text with its spaces dropped
Squeezed(s) == SelectSeq(entity_norm_text(s), LAMBDA c : c # " ")

\* the tokens of the entity: the words of its normalized name
EntityWords == field_token_set(entity.entity_norm)

AllWordsWhole == \A t \in EntityWords : WholeTokenOf(t, field_value)

JoinedInside == entity.priority >= 4 /\ Contains(Squeezed(entity.entity_norm), Squeezed(field_value))

\* C11: entity_matches_field is true exactly when the entity has a token and
\* either every token of the entity is a whole token of the normalized value,
\* or the entity has priority >= 4 and its joined tokens occur inside the
\* joined tokens of the value; below priority 4 a partial token or a proper
\* subset of the tokens never matches.
C11_EntityMatchesField ==
    pc = "matched" =>
        /\ match_out[1] <=> (EntityWords # {} /\ (AllWordsWhole \/ JoinedInside))
        /\ (entity.priority < 4 /\ ~AllWordsWhole) => ~match_out[1]
        /\ EntityWords = {} => ~match_out[1]

\* "cordel do fogo" with priority 3 matches "Cordel do Fogo Encantado"
C11_Witness ==
    /\ pc = "matched"
    /\ entity.entity_norm = <<"c","o","r","d","e","l"," ","d","o"," ","f","o","g","o">> /\ entity.priority = 3
    /\ field_value = <<"C","o","r","d","e","l"," ","d","o"," ","F","o","g","o"," ","E","n","c","a","n","t","a","d","o">>
    /\ match_out = <<TRUE>>

\* the same entity does not match "Cordel" alone
C11_WitnessPartial ==
    /\ pc = "matched"
    /\ entity.entity_norm = <<"c","o","r","d","e","l"," ","d","o"," ","f","o","g","o">> /\ entity.priority = 3
    /\ field_value = <<"C","o","r","d","e","l">>
    /\ match_out = <<FALSE>>

----------------------------------------------------------------------------
(* pandas frames: the column labels in order and the rows in order, each  *)
(* row with its index label and its cells (a function of the column label) *)

Frame(columns, rows) == [columns |-> columns, rows |-> rows]

InSeq(x, s) == \E i \in 1..Len(s) : s[i] = x

\* the text of the column labels and flag names that the code builds strings
\* from or searches
ColumnText ==
    [ c \in {"title", "artist", "author", "compositor", "amount", "evidence_flags"} |->
        CASE c = "title" -> <<"t","i","t","l","e">>
          [] c = "artist" -> <<"a","r","t","i","s","t">>
          [] c = "author" -> <<"a","u","t","h","o","r">>
          [] c = "compositor" -> <<"c","o","m","p","o","s","i","t","o","r">>
          [] c = "amount" -> <<"a","m","o","u","n","t">>
          [] c = "evidence_flags" -> <<"e","v","i","d","e","n","c","e","_","f","l","a","g","s">> ]

\* code point order on the characters of a normalized string
CodeOrder ==
    <<" ", "0","1","2","3","4","5","6","7","8","9">> \o LowerLetters

OrdOf(c) == CHOOSE i \in 1..Len(CodeOrder) : CodeOrder[i] = c

\* a < b on str
StrLess(a, b) ==
    \E k \in 1..(Len(a) + 1) :
        /\ \A i \in 1..(k - 1) : i <= Len(b) /\ a[i] = b[i]
        /\ k <= Len(b)
        /\ (k = Len(a) + 1 \/ OrdOf(a[k]) < OrdOf(b[k]))

\* sorted(S) for a set of str
RECURSIVE SortedStrs(_)
SortedStrs(S) ==
    IF S = {} THEN <<>>
    ELSE LET m == CHOOSE x \in S : \A y \in S \ {x} : StrLess(x, y)
         IN  <<m>> \o SortedStrs(S \ {m})

----------------------------------------------------------------------------
(* scripts/entity_overrides.py: compute_entity_override_hits *)

SearchFields == <<"artist", "author", "publisher", "owner">>

EvidenceFieldAliases == <<"evidence_flags", "evidence_tokens">>

\* re.compile(include, re.IGNORECASE).search(c), for a pattern that is a list
\* of literal alternatives lit|lit|...
rx_search(include, c) ==
    \E i \in 1..Len(include) : Contains(Lower(include[i]), Lower(ColumnText[c]))

available_fields(d, search_fields, aliases, include) ==
    LET a1 == SelectSeq(search_fields, LAMBDA f : InSeq(f, d.columns))
        a2 == a1 \o SelectSeq(aliases, LAMBDA f : InSeq(f, d.columns) /\ ~InSeq(f, a1))
    IN  IF include = <<>> THEN a2
        ELSE a2 \o SelectSeq(d.columns, LAMBDA c : ~InSeq(c, a2) /\ rx_search(include, c))

\* ent_toks.issubset(field_token_set(cell)), for an entity that has tokens
ent_hits_cell(ent, cell) ==
    /\ entity_tokens(ent) # <<>>
    /\ Range(entity_tokens(ent)) \subseteq field_token_set(cell)

\* the (entity, field) pairs, entity by entity and field by field, for which
\* the row matches
row_hits(r, ovs, fields) ==
    LET F == Len(fields)
        pairs == [k \in 1..(Len(ovs) * F) |-> <<((k - 1) \div F) + 1, ((k - 1) % F) + 1>>]
    IN  SelectSeq(pairs, LAMBDA q : ent_hits_cell(ovs[q[1]], r.cells[fields[q[2]]]))

\* hit_entities[i] and hit_fields[i] are lists indexed by the index LABEL i of
\* the matching row: what the lists hold at position p (1-based) when the
\* labels are distinct
hits_at(d, ovs, fields, p) ==
    LET from == {r \in 1..Len(d.rows) : d.rows[r].label = p - 1}
    IN  IF from = {} THEN <<>> ELSE row_hits(d.rows[CHOOSE r \in from : TRUE], ovs, fields)

\* best_priority[i]: starts at 0, raised by every hit of a higher priority
best_priority(ovs, hits) ==
    SetMax({0} \cup {ovs[hits[k][1]].priority : k \in 1..Len(hits)})

\* the four columns of one row
hit_columns(ovs, fields, hits) ==
    [ entity_override_hit |-> IF hits # <<>> THEN 1 ELSE 0,
      entity_override_best_priority |-> best_priority(ovs, hits),
      entity_override_entities |->
          Join(<<";">>, SortedStrs({ovs[hits[k][1]].entity_norm : k \in 1..Len(hits)})),
      entity_override_hit_fields |->
          Join(<<";">>, [k \in 1..Len(hits) |->
              ovs[hits[k][1]].entity_norm \o <<"@">> \o ColumnText[fields[hits[k][2]]]]) ]

HitColumnNames ==
    <<"entity_override_hit", "entity_override_best_priority",
      "entity_override_entities", "entity_override_hit_fields">>

\* the labels of the rows whose field f holds every token of the entity:
\* m[m].index
mask_labels(d, ent, f) ==
    {d.rows[p].label : p \in {q \in 1..Len(d.rows) : ent_hits_cell(ent, d.rows[q].cells[f])}}

\* the statistics of one entity: hit_count is hit_mask.sum(), the number of
\* labels some field's mask holds, and hit_field_breakdown the fields with a
\* count above 0, in field order, each with m.sum() (the code writes the
\* pairs as "field:count" joined by commas)
entity_stats(d, ent, fields) ==
    LET masked == SelectSeq([k \in 1..Len(fields) |->
                                [field |-> fields[k], labels |-> mask_labels(d, ent, fields[k])]],
                            LAMBDA b : b.labels # {})
    IN  [ entity_norm |-> ent.entity_norm,
          hit_count |-> Cardinality(UNION {masked[k].labels : k \in 1..Len(masked)}),
          hit_field_breakdown |->
              [k \in 1..Len(masked) |->
                  [field |-> masked[k].field, count |-> Cardinality(masked[k].labels)]] ]

\* the rows of stats_df: one per entity that has tokens and a hit, in the
\* order of the overrides; stats is a dict keyed by entity_norm, so a later
\* entity of the same entity_norm replaces an earlier one in its place
RECURSIVE stats_rows(_, _, _, _, _)
stats_rows(d, ovs, fields, k, acc) ==
    IF k > Len(ovs) THEN acc
    ELSE LET st == entity_stats(d, ovs[k], fields)
             at == {i \in 1..Len(acc) : acc[i].entity_norm = ovs[k].entity_norm}
         IN  IF entity_tokens(ovs[k]) = <<>> \/ st.hit_count = 0
             THEN stats_rows(d, ovs, fields, k + 1, acc)
             ELSE IF at = {} THEN stats_rows(d, ovs, fields, k + 1, Append(acc, st))
             ELSE stats_rows(d, ovs, fields, k + 1,
                             [i \in 1..Len(acc) |-> IF i \in at THEN st ELSE acc[i]])

stats(d, ovs, search_fields, aliases, include) ==
    stats_rows(d, ovs, available_fields(d, search_fields, aliases, include), 1, <<>>)

\* the frame returned
compute_entity_override_hits(d, ovs, search_fields, aliases, include) ==
    LET fields == available_fields(d, search_fields, aliases, include)
    IN  Frame(d.columns \o HitColumnNames,
              [p \in 1..Len(d.rows) |->
                  [ label |-> d.rows[p].label,
                    cells |-> hit_columns(ovs, fields, hits_at(d, ovs, fields, p)) @@ d.rows[p].cells ]])

\* frames passed to compute_entity_override_hits have at most MaxHitRows rows
MaxHitRows == 2

\* two column layouts and rows for each
HitColumnsA == <<"title", "artist", "evidence_flags">>

HitRowsA ==
    { [title |-> t[1], artist |-> t[2], evidence_flags |-> t[3]] :
        t \in { <<<<"x">>, <<"T","a","g","o","r","e">>, <<>>>>,
                <<<<"x">>, <<"D","u","d","u","F","a","l","c","a","o">>, <<"T","I","T","L","E","_","E","X","A","C","T">>>>,
                <<<<"T","a","g","o","r","e">>, <<"X">>, <<>>>>,
                <<<<"x">>, <<"D","u","d","u"," ","F","a","l","c","a","o",";"," ","T","A","G","O","R","E">>, <<"t","a","g","o","r","e">>>> } }

HitColumnsB == <<"artist", "author", "compositor", "amount">>

HitRowsB ==
    { [artist |-> t[1], author |-> t[2], compositor |-> t[3], amount |-> t[4]] :
        t \in { <<<<"T","a","g","o","r","e">>, <<"T","a","g","o","r","e">>, <<>>, <<"1">>>>,
                <<<<"X">>, <<"D","u","d","u"," ","F","a","l","c","a","o">>, <<"T","a","g","o","r","e">>, <<"2">>>>,
                <<<<>>, <<>>, <<"C","o","r","d","e","l">>, <<"3">>>>,
                <<<<"D","u","d","u","F","a","l","c","a","o">>, <<>>, <<>>, <<"4">>>> } }

\* the index labels of a frame of n rows: 0..n-1 in any order
IndexLabels(n) == {ix \in [1..n -> 0..(n - 1)] : \A i, j \in 1..n : ix[i] = ix[j] => i = j}

HitFrames ==
    UNION { { Frame(columns, [p \in 1..n |-> [label |-> ix[p], cells |-> cs[p]]]) :
                cs \in [1..n -> (IF columns = HitColumnsA THEN HitRowsA ELSE HitRowsB)],
                ix \in IndexLabels(n) } :
            n \in 0..MaxHitRows, columns \in {HitColumnsA, HitColumnsB} }

\* lists as load_entity_overrides returns them: entity_norm normalized and
\* unique ("tagore", "dudu falcao", "cordel", and "" from a name without
\* letters or digits)
HitOverrideLists ==
    { << EntityOverride(<<"T","a","g","o","r","e">>, <<"t","a","g","o","r","e">>, "PERSON", 5, 0, <<>>, <<>>),
         EntityOverride(<<"D","u","d","u"," ","F","a","l","c","a","o">>, <<"d","u","d","u"," ","f","a","l","c","a","o">>, "PERSON", 4, 0, <<>>, <<>>),
         EntityOverride(<<"!","!">>, <<>>, "PERSON", 5, 0, <<>>, <<>>) >>,
      << EntityOverride(<<"C","o","r","d","e","l">>, <<"c","o","r","d","e","l">>, "PSEUDONYM", 0, 1, <<1>>, <<>>),
         EntityOverride(<<"T","a","g","o","r","e">>, <<"t","a","g","o","r","e">>, "PERSON", 2, 0, <<>>, <<>>),
         EntityOverride(<<"D","u","d","u"," ","F","a","l","c","a","o">>, <<"d","u","d","u"," ","f","a","l","c","a","o">>, "PERSON", 3, 0, <<>>, <<>>) >>,
      << >> }

\* "" (no pattern) or "autor|compositor"
IncludePatterns == { <<>>, <<<<"a","u","t","o","r">>, <<"c","o","m","p","o","s","i","t","o","r">>>> }

ScorerNormMatchIdle == ScorerNormIdle /\ MatchIdle

InitHits ==
    /\ pc = "hits_args"
    /\ ScorerNormMatchIdle /\ ResolveIdle /\ SideIdle
    /\ df \in HitFrames
    /\ overrides \in HitOverrideLists
    /\ include_columns_matching \in IncludePatterns
    /\ ctl_df = <<>> /\ ctl_log = <<>> /\ stats_df = <<>> /\ top_n = 0 /\ top = <<>>

\* df, stats_df = compute_entity_override_hits(df, overrides, ...)
ComputeHitsCall ==
    /\ pc = "hits_args"
    /\ df' = compute_entity_override_hits(df, overrides, SearchFields,
                                          EvidenceFieldAliases, include_columns_matching)
    /\ stats_df' = stats(df, overrides, SearchFields,
                         EvidenceFieldAliases, include_columns_matching)
    /\ pc' = "hits"
    /\ UNCHANGED <<scorevars, normvars, matchvars, overrides, include_columns_matching,
                   ctl_df, ctl_log, top_n, top, resolvevars, config_json, auditvars, cleanvars>>

NextHits == ComputeHitsCall

SpecHits == InitHits /\ [][NextHits]_vars

\* the index is 0..n-1 in row order, as read_csv leaves it
RangeIndexed(d) == \A p \in 1..Len(d.rows) : d.rows[p].label = p - 1

\* the columns the call scans: the search fields and evidence aliases present
\* in the frame, and the columns the inclusion pattern matches
ScannedColumns ==
    { c \in Range(df.columns) :
        \/ InSeq(c, SearchFields) \/ InSeq(c, EvidenceFieldAliases)
        \/ (include_columns_matching # <<>> /\ c \in DOMAIN ColumnText
            /\ rx_search(include_columns_matching, c)) }

\* the entity has tokens and each is a whole word of the normalized value
AllTokensIn(e, value) ==
    /\ field_token_set(e.entity_norm) # {}
    /\ \A t \in field_token_set(e.entity_norm) : WholeTokenOf(t, value)

\* the configured entities that entity_matches_field accepts on a scanned
\* field of the row at position p
MatchRuleEntities(p) ==
    { o \in Range(overrides) :
        \E c \in ScannedColumns : entity_matches_field(o, df.rows[p].cells[c]) }

\* the configured entities all of whose tokens are in a scanned field of the
\* row at position p
TokenMatchedEntities(p) ==
    { o \in Range(overrides) :
        \E c \in ScannedColumns : AllTokensIn(o, df.rows[p].cells[c]) }

\* the entities recorded in the row at position p
RecordedEntities(p) ==
    { o \in Range(overrides) :
        o.entity_norm # <<>> /\
        Contains(<<";">> \o o.entity_norm \o <<";">>,
                 <<";">> \o df.rows[p].cells["entity_override_entities"] \o <<";">>) }

\* C12: compute_entity_override_hits records an entity on a row exactly when
\* entity_matches_field accepts the entity on a scanned field of that row,
\* the joined-token rule for priority >= 4 included (stated for frames whose
\* index is 0..n-1 in row order).
C12_SameMatchRule ==
    (pc = "hits" /\ RangeIndexed(df)) =>
        \A p \in 1..Len(df.rows) : RecordedEntities(p) = MatchRuleEntities(p)

\* C13: in every row of the returned frame, entity_override_hit is 1 iff some
\* configured entity matched a scanned field of that row,
\* entity_override_entities is the sorted duplicate-free list of the entities
\* that matched, and entity_override_best_priority is their maximum priority
\* (0 when none matched).
C13_HitColumns ==
    pc = "hits" =>
        \A p \in 1..Len(df.rows) :
            LET c == df.rows[p].cells
                M == TokenMatchedEntities(p)
            IN  /\ c["entity_override_hit"] = (IF M # {} THEN 1 ELSE 0)
                /\ c["entity_override_entities"] =
                       Join(<<";">>, SortedStrs({o.entity_norm : o \in M}))
                /\ c["entity_override_best_priority"] =
                       (IF M = {} THEN 0 ELSE SetMax({o.priority : o \in M}))

\* the same statement for frames whose index is 0..n-1 in row order
C13_HitColumnsRangeIndex ==
    RangeIndexed(df) => C13_HitColumns

----------------------------------------------------------------------------
(* scripts/entity_overrides.py: classify_entity_override_mode *)

\* s.str.strip().ne("")
NonBlank(s) == Strip(s) # <<>>

\* flags.str.contains(name, case=False)
flags_contain(flags, name) == Contains(Lower(name), Lower(flags))

\* has_id: any of isrc, iswc, ref_isrc, ref_iswc is not blank
has_id(c) ==
    \/ NonBlank(c["isrc"]) \/ NonBlank(c["iswc"])
    \/ NonBlank(c["ref_isrc"]) \/ NonBlank(c["ref_iswc"])

has_title_anchor(columns, c) ==
    LET matched_title == IF InSeq("matched_title", columns)
                         THEN c["matched_title"] ELSE c["ref_title_norm"]
    IN  \/ flags_contain(c["evidence_flags"], <<"T","I","T","L","E","_","E","X","A","C","T">>)
        \/ flags_contain(c["evidence_flags"], <<"T","I","T","L","E","_","N","E","A","R">>)
        \/ NonBlank(matched_title)

\* the mutant assigns the title mode last
mode_of_row_title_last(columns, c) ==
    IF has_title_anchor(columns, c) THEN "ENTITY_PLUS_TITLE"
    ELSE IF has_id(c) THEN "ENTITY_PLUS_ID"
    ELSE "ENTITY_ONLY"

\* mode = "ENTITY_ONLY"; mode[has_title_anchor] = "ENTITY_PLUS_TITLE";
\* mode[has_id] = "ENTITY_PLUS_ID"
mode_of_row(columns, c) ==
    IF has_id(c) THEN "ENTITY_PLUS_ID"
    ELSE IF has_title_anchor(columns, c) THEN "ENTITY_PLUS_TITLE"
    ELSE "ENTITY_ONLY"

\* the Series returned: one mode per row, under the row's index label
classify_entity_override_mode(d) ==
    [p \in 1..Len(d.rows) |->
        [label |-> d.rows[p].label, mode |-> mode_of_row(d.columns, d.rows[p].cells)]]

\* frames of one row for the call: evidence_flags "", "TITLE_EXACT;
\* ARTIST_TOKEN_OVERLAP", "GOLD_TOKEN_HIT;title_near", "NO_TITLE"; identifiers
\* "", " ", "BR-TVW-13-00013", "T-1"; titles "", " ", "diana"; with or
\* without a matched_title column
ClassifyFrames ==
    { Frame(IF mt = Absent
            THEN <<"evidence_flags", "ref_title_norm", "isrc", "iswc", "ref_isrc", "ref_iswc">>
            ELSE <<"evidence_flags", "ref_title_norm", "isrc", "iswc", "ref_isrc", "ref_iswc", "matched_title">>,
            << [ label |-> 3,
                 cells |-> [ k \in {"evidence_flags", "ref_title_norm", "isrc", "iswc",
                                    "ref_isrc", "ref_iswc"} \cup
                                   (IF mt = Absent THEN {} ELSE {"matched_title"}) |->
                     CASE k = "evidence_flags" -> fl
                       [] k = "ref_title_norm" -> rt
                       [] k = "isrc" -> ids[1]
                       [] k = "iswc" -> ids[2]
                       [] k = "ref_isrc" -> ids[3]
                       [] k = "ref_iswc" -> ids[4]
                       [] k = "matched_title" -> mt ] ] >>) :
        fl \in { <<>>, <<"T","I","T","L","E","_","E","X","A","C","T",";","A","R","T","I","S","T","_","T","O","K","E","N","_","O","V","E","R","L","A","P">>, <<"G","O","L","D","_","T","O","K","E","N","_","H","I","T",";","t","i","t","l","e","_","n","e","a","r">>, <<"N","O","_","T","I","T","L","E">> },
        rt \in { <<>>, <<"d","i","a","n","a">> },
        mt \in { Absent, <<>>, <<" ">>, <<"d","i","a","n","a">> },
        ids \in { <<<<>>, <<>>, <<>>, <<>>>>, <<<<" ">>, <<>>, <<>>, <<" ">>>>,
                  <<<<"B","R","-","T","V","W","-","1","3","-","0","0","0","1","3">>, <<>>, <<>>, <<>>>>, <<<<>>, <<"T","-","1">>, <<>>, <<>>>>,
                  <<<<>>, <<>>, <<"B","R","-","T","V","W","-","1","3","-","0","0","0","1","3">>, <<>>>>, <<<<>>, <<" ">>, <<>>, <<"T","-","1">>>> } }

InitClassify ==
    /\ pc = "classify_args"
    /\ ScorerNormMatchIdle /\ ResolveIdle /\ SideIdle
    /\ df \in ClassifyFrames
    /\ overrides = <<>> /\ include_columns_matching = <<>>
    /\ ctl_df = <<>> /\ ctl_log = <<>> /\ stats_df = <<>> /\ top_n = 0 /\ top = <<>>

\* df["entity_override_mode"] = classify_entity_override_mode(df)
ClassifyCall ==
    /\ pc = "classify_args"
    /\ LET mode == classify_entity_override_mode(df)
       IN  df' = Frame(df.columns \o <<"entity_override_mode">>,
                       [p \in 1..Len(df.rows) |->
                           [ label |-> df.rows[p].label,
                             cells |-> [entity_override_mode |-> mode[p].mode] @@ df.rows[p].cells ]])
    /\ pc' = "classified"
    /\ UNCHANGED <<scorevars, normvars, matchvars, overrides, include_columns_matching,
                   ctl_df, ctl_log, stats_df, top_n, top, resolvevars, config_json, auditvars, cleanvars>>

NextClassify == ClassifyCall

SpecClassify == InitClassify /\ [][NextClassify]_vars

\* the string has a character that is not white space
HasVisibleChar(s) == \E i \in 1..Len(s) : s[i] \notin SpaceChars

\* an identifier of the row or of its reference entry is present
AnyIdPresent(c) ==
    \E k \in {"isrc", "iswc", "ref_isrc", "ref_iswc"} : HasVisibleChar(c[k])

\* the flags name a title match (in any letter case) or the matched title
\* (column matched_title if the frame has it, else ref_title_norm) is present
TitleAnchorPresent(c) ==
    \/ \E f \in { <<"T","I","T","L","E","_","E","X","A","C","T">>, <<"T","I","T","L","E","_","N","E","A","R">> } : Contains(f, Upper(c["evidence_flags"]))
    \/ HasVisibleChar(IF "matched_title" \in DOMAIN c THEN c["matched_title"] ELSE c["ref_title_norm"])

\* C14: each row gets exactly one mode: ENTITY_PLUS_ID if an identifier is
\* present, otherwise ENTITY_PLUS_TITLE if a title anchor is present,
\* otherwise ENTITY_ONLY; with both an identifier and a title anchor the mode
\* is ENTITY_PLUS_ID.
C14_ModeClassification ==
    pc = "classified" =>
        \A p \in 1..Len(df.rows) :
            LET c == df.rows[p].cells
            IN  c["entity_override_mode"] =
                    (IF AnyIdPresent(c) THEN "ENTITY_PLUS_ID"
                     ELSE IF TitleAnchorPresent(c) THEN "ENTITY_PLUS_TITLE"
                     ELSE "ENTITY_ONLY")

\* a row with TITLE_EXACT in its flags and an ISRC: ENTITY_PLUS_ID
C14_Witness ==
    /\ pc = "classified"
    /\ \E p \in 1..Len(df.rows) :
          LET c == df.rows[p].cells
          IN  /\ Contains(<<"T","I","T","L","E","_","E","X","A","C","T">>, c["evidence_flags"])
              /\ c["isrc"] = <<"B","R","-","T","V","W","-","1","3","-","0","0","0","1","3">>
              /\ c["entity_override_mode"] = "ENTITY_PLUS_ID"

----------------------------------------------------------------------------
(* scripts/run_catalog_sweep.py: main, up to the promotion *)

\* the text of the tier and flag names that score_rows.main writes to the
\* scored CSV
TextOf ==
    [ s \in {"Gold", "Silver", "Bronze", "NoMatch", "GOLD_TOKEN_HIT", "NEGATIVE_TITLE_TRIGGER",
             "TITLE_EXACT", "ARTIST_TOKEN_OVERLAP", "ARTIST_PRESENT_NO_SUPPORT",
             "ISRC_MATCH", "ISWC_MATCH"} |->
        CASE s = "Gold" -> <<"G","o","l","d">>
          [] s = "Silver" -> <<"S","i","l","v","e","r">>
          [] s = "Bronze" -> <<"B","r","o","n","z","e">>
          [] s = "NoMatch" -> <<"N","o","M","a","t","c","h">>
          [] s = "GOLD_TOKEN_HIT" -> <<"G","O","L","D","_","T","O","K","E","N","_","H","I","T">>
          [] s = "NEGATIVE_TITLE_TRIGGER" -> <<"N","E","G","A","T","I","V","E","_","T","I","T","L","E","_","T","R","I","G","G","E","R">>
          [] s = "TITLE_EXACT" -> <<"T","I","T","L","E","_","E","X","A","C","T">>
          [] s = "ARTIST_TOKEN_OVERLAP" -> <<"A","R","T","I","S","T","_","T","O","K","E","N","_","O","V","E","R","L","A","P">>
          [] s = "ARTIST_PRESENT_NO_SUPPORT" -> <<"A","R","T","I","S","T","_","P","R","E","S","E","N","T","_","N","O","_","S","U","P","P","O","R","T">>
          [] s = "ISRC_MATCH" -> <<"I","S","R","C","_","M","A","T","C","H">>
          [] s = "ISWC_MATCH" -> <<"I","S","W","C","_","M","A","T","C","H">> ]

\* the columns score_rows.main adds to a row (those of them the sweep reads)
scored_columns(sr) ==
    [ match_tier |-> TextOf[sr.tier],
      evidence_flags |-> Join(<<";">>, [i \in 1..Len(sr.evidence_flags) |-> TextOf[sr.evidence_flags[i]]]),
      ref_title_norm |-> Or(sr.ref_title_norm, <<>>),
      ref_isrc |-> Or(sr.ref_isrc, <<>>),
      ref_iswc |-> Or(sr.ref_iswc, <<>>) ]

\* cols: the columns the sweep loads when the scored CSV has them
SweepCols ==
    <<"source_file", "source_sheet", "source_row", "title", "artist", "author", "amount",
      "match_tier", "evidence_flags", "ref_title_norm", "ref_isrc", "ref_iswc", "isrc", "iswc">>

ScoredNames == <<"match_tier", "evidence_flags", "ref_title_norm", "ref_isrc", "ref_iswc">>

\* the row of the scored CSV for the input row r, as the sweep loads it
scored_cells(r, idx, c) ==
    LET own == SelectSeq(r, LAMBDA kv : InSeq(kv.k, SweepCols) /\ ~InSeq(kv.k, ScoredNames))
    IN  scored_columns(score_one(r, idx, c)) @@
        [k \in {own[i].k : i \in 1..Len(own)} |-> DictGet(r, k, <<>>)]

\* the column labels of that CSV, in file order
scored_header(r) ==
    LET own == SelectSeq(r, LAMBDA kv : InSeq(kv.k, SweepCols) /\ ~InSeq(kv.k, ScoredNames))
    IN  [i \in 1..Len(own) |-> own[i].k] \o ScoredNames

\* the mutant compares the tier as written
tier_weight_as_written(tier) ==
    IF tier = <<"G","o","l","d">> THEN 3
    ELSE IF tier = <<"S","i","l","v","e","r">> THEN 2
    ELSE IF tier = <<"B","r","o","n","z","e">> THEN 1
    ELSE 0

tier_weight(tier) ==
    LET t == Lower(Strip(tier))
    IN  IF t = <<"g","o","l","d">> THEN 3
        ELSE IF t = <<"s","i","l","v","e","r">> THEN 2
        ELSE IF t = <<"b","r","o","n","z","e">> THEN 1
        ELSE 0

\* df["tier_weight"], df["has_ref_id"], df["has_any_id"], df["flags_len"]
rank_helpers(c) ==
    [ tier_weight |-> tier_weight(c["match_tier"]),
      has_ref_id |-> NonBlank(c["ref_isrc"]) \/ NonBlank(c["ref_iswc"]),
      has_any_id |-> has_id(c),
      flags_len |-> Len(c["evidence_flags"]) ]

\* the frame with the columns of f set (added or overwritten) row by row
WithColumns(d, names, f) ==
    Frame(d.columns \o SelectSeq(names, LAMBDA n : ~InSeq(n, d.columns)),
          [p \in 1..Len(d.rows) |->
              [label |-> d.rows[p].label, cells |-> f[p] @@ d.rows[p].cells]])

\* s.split(";")
SplitSemi(s) ==
    LET cuts == Ascending({0, Len(s) + 1} \cup {i \in 1..Len(s) : s[i] = ";"})
    IN  [k \in 1..(Len(cuts) - 1) |-> SubSeq(s, cuts[k] + 1, cuts[k + 1] - 1)]

\* s.strip(";")
StripSemi(s) ==
    LET keep == {i \in 1..Len(s) : s[i] # ";"}
    IN  IF keep = {} THEN <<>> ELSE SubSeq(s, SetMin(keep), SetMax(keep))

\* _append_flag(row)
append_flag(c) ==
    LET ents == Strip(c["entity_override_entities"])
        parts == SplitSemi(ents)
        e3 == Join(<<";">>, SubSeq(parts, 1, IF Len(parts) < 3 THEN Len(parts) ELSE 3))
        base == c["evidence_flags"]
        add == <<"E","N","T","I","T","Y","_","O","V","E","R","R","I","D","E","_","H","I","T",":">> \o e3
    IN  IF c["entity_override_hit"] # 1 \/ ents = <<>> THEN base
        ELSE IF base # <<>> THEN StripSemi(base \o <<";">> \o add)
        ELSE add

\* df["entity_override_mode"] = ""; the rows with a hit get their mode
sweep_mode(columns, c) ==
    IF c["entity_override_hit"] = 1 THEN mode_of_row(columns, c) ELSE ""

\* the mutant promotes every row that has an entity hit
promote_any_hit(c) ==
    IF c["entity_override_hit"] = 1 /\ c["tier_weight"] < 2 THEN 2 ELSE c["tier_weight"]

\* df.loc[m_plus_title, "tier_weight"] = ....clip(lower=2)
promote(c) ==
    IF c["entity_override_mode"] = "ENTITY_PLUS_TITLE" /\ c["tier_weight"] < 2
    THEN 2 ELSE c["tier_weight"]

----------------------------------------------------------------------------
(* scripts/entity_overrides.py: apply_noisy_entity_controls *)

\* the value of a rank column as a number (False < True)
rank_value(c, col) ==
    IF col \in {"has_any_id", "has_ref_id"} THEN (IF c[col] THEN 1 ELSE 0) ELSE c[col]

rank_key(c, rank_cols) == [i \in 1..Len(rank_cols) |-> rank_value(c, rank_cols[i])]

\* a > b on tuples of numbers of the same length
KeyGreater(a, b) ==
    \E k \in 1..Len(a) : a[k] > b[k] /\ \A i \in 1..(k - 1) : a[i] = b[i]

\* the mutant sorts worst-first
sort_values_ascending(rows, rank_cols) ==
    LET n == Len(rows)
        Before(i, j) == \/ KeyGreater(rank_key(rows[j].cells, rank_cols), rank_key(rows[i].cells, rank_cols))
                        \/ (rank_key(rows[i].cells, rank_cols) = rank_key(rows[j].cells, rank_cols) /\ i < j)
    IN  [k \in 1..n |-> rows[CHOOSE i \in 1..n : Cardinality({j \in 1..n : Before(j, i)}) = k - 1]]

\* d.sort_values(rank_cols, ascending=[False] * len(rank_cols)): rows of equal
\* key keep their order
sort_values_descending(rows, rank_cols) ==
    LET n == Len(rows)
        Before(i, j) == \/ KeyGreater(rank_key(rows[i].cells, rank_cols), rank_key(rows[j].cells, rank_cols))
                        \/ (rank_key(rows[i].cells, rank_cols) = rank_key(rows[j].cells, rank_cols) /\ i < j)
    IN  [k \in 1..n |-> rows[CHOOSE i \in 1..n : Cardinality({j \in 1..n : Before(j, i)}) = k - 1]]

\* d.head(n)
head(rows, n) ==
    LET m == IF n >= 0 THEN n ELSE Len(rows) + n
    IN  SubSeq(rows, 1, IF m > Len(rows) THEN Len(rows) ELSE m)

\* the mutant accepts the flags only
coevidence_ok_flags_only(c) ==
    \/ flags_contain(c["evidence_flags"], <<"T","I","T","L","E","_","E","X","A","C","T">>)
    \/ flags_contain(c["evidence_flags"], <<"A","R","T","I","S","T","_","T","O","K","E","N","_","O","V","E","R","L","A","P">>)

coevidence_ok(c) ==
    \/ flags_contain(c["evidence_flags"], <<"T","I","T","L","E","_","E","X","A","C","T">>)
    \/ flags_contain(c["evidence_flags"], <<"A","R","T","I","S","T","_","T","O","K","E","N","_","O","V","E","R","L","A","P">>)
    \/ has_id(c)

\* ent.per_term_cap is neither None nor 0
has_cap(ent) == ent.per_term_cap # <<>> /\ ent.per_term_cap[1] # 0

\* str.contains(re.escape(ent.entity_norm)) on entity_override_entities
entity_mask(c, ent) == Contains(ent.entity_norm, c["entity_override_entities"])

LabelsOf(rows) == {rows[i].label : i \in 1..Len(rows)}

\* one pass of the loop body for a controlled entity: the rows of out after
\* it, and what the pass did
control_entity(rows, ent, rank_cols) ==
    LET hit    == SelectSeq(rows, LAMBDA r : entity_mask(r.cells, ent))
        rest   == SelectSeq(rows, LAMBDA r : ~entity_mask(r.cells, ent))
        d1     == IF ent.requires_coevidence # 0
                  THEN SelectSeq(hit, LAMBDA r : coevidence_ok(r.cells)) ELSE hit
        d2     == sort_values_descending(d1, rank_cols)
        d3     == IF has_cap(ent) THEN head(d2, ent.per_term_cap[1]) ELSE d2
    IN  [ rows |-> IF hit = <<>> THEN rows ELSE rest \o d3,
          log  |-> [ entity |-> ent.entity_norm,
                     hit |-> LabelsOf(hit),
                     no_coevidence |-> LabelsOf(hit) \ LabelsOf(d1),
                     over_cap |-> LabelsOf(d1) \ LabelsOf(d3) ] ]

\* for ent in overrides[k..]: the rows of out at the end and the passes made
RECURSIVE control_loop(_, _, _, _, _)
control_loop(rows, log, ovs, k, rank_cols) ==
    IF k > Len(ovs) THEN [rows |-> rows, log |-> log]
    ELSE IF ~(ovs[k].requires_coevidence # 0 \/ has_cap(ovs[k]))
    THEN control_loop(rows, log, ovs, k + 1, rank_cols)
    ELSE LET step == control_entity(rows, ovs[k], rank_cols)
         IN  control_loop(step.rows, Append(log, step.log), ovs, k + 1, rank_cols)

apply_noisy_entity_controls(d, ovs, rank_cols) ==
    Frame(d.columns, control_loop(d.rows, <<>>, ovs, 1, rank_cols).rows)

----------------------------------------------------------------------------
(* scripts/run_catalog_sweep.py: main *)

\* the scored frame has at most MaxFrame rows
MaxFrame == 3

DefaultTopN == 10000

\* the reference table and configuration the input was scored with:
\* "eleanor rigby" with ISRC BR-TVW-13-00013 and evidence token "beatles",
\* "yesterday" without identifiers and evidence tokens "paul mccartney"
SweepReference ==
    << [ title_raw |-> <<>>, title_norm |-> <<"e","l","e","a","n","o","r"," ","r","i","g","b","y">>,
         isrc |-> <<"B","R","-","T","V","W","-","1","3","-","0","0","0","1","3">>, iswc |-> <<>>, evidence_tokens |-> <<"b","e","a","t","l","e","s">> ],
       [ title_raw |-> <<>>, title_norm |-> <<"y","e","s","t","e","r","d","a","y">>,
         isrc |-> <<>>, iswc |-> <<>>, evidence_tokens |-> <<"p","a","u","l"," ","m","c","c","a","r","t","n","e","y">> ] >>

SweepConfig ==
    load_config([ gold_tokens |-> << <<"t","a","g","o","r","e">> >>, negative_title_triggers |-> << <<"d","i","a","n","a">> >> ])

\* input rows (title, artist, author, isrc, iswc)
SweepInputRows ==
    { << [k |-> "title", v |-> t[1]], [k |-> "artist", v |-> t[2]], [k |-> "author", v |-> t[3]],
         [k |-> "isrc", v |-> t[4]], [k |-> "iswc", v |-> t[5]] >> :
        t \in { <<<<"E","l","e","a","n","o","r"," ","R","i","g","b","y">>, <<"O","s"," ","B","e","a","t","l","e","s">>, <<"C","o","r","d","e","l">>, <<>>, <<>>>>,
                <<<<"Y","e","s","t","e","r","d","a","y">>, <<"C","o","r","d","e","l"," ","d","o"," ","F","o","g","o">>, <<>>, <<>>, <<>>>>,
                <<<<"x">>, <<"C","o","r","d","e","l">>, <<"T","a","g","o","r","e">>, <<"B","R","-","T","V","W","-","1","3","-","0","0","0","1","3">>, <<>>>>,
                <<<<"u","n","k","n","o","w","n">>, <<"C","o","r","d","e","l">>, <<>>, <<>>, <<>>>>,
                <<<<"Y","e","s","t","e","r","d","a","y">>, <<"P","a","u","l"," ","B","e","a","t","l","e","s">>, <<>>, <<>>, <<>>>>,
                <<<<"Y","e","s","t","e","r","d","a","y">>, <<>>, <<>>, <<>>, <<>>>> } }

\* the scored CSV: distinct input rows in any order
ScoredInputs ==
    UNION { {rs \in [1..n -> SweepInputRows] : \A i, j \in 1..n : rs[i] = rs[j] => i = j} :
            n \in 0..MaxFrame }

\* lists returned by load_entity_overrides
SweepOverrideLists ==
    { << EntityOverride(<<"C","o","r","d","e","l">>, <<"c","o","r","d","e","l">>, "PSEUDONYM", 2, 1, <<>>, <<>>),
         EntityOverride(<<"T","a","g","o","r","e">>, <<"t","a","g","o","r","e">>, "PERSON", 5, 0, <<>>, <<>>) >>,
      << EntityOverride(<<"C","o","r","d","e","l">>, <<"c","o","r","d","e","l">>, "PSEUDONYM", 1, 0, <<1>>, <<>>),
         EntityOverride(<<"B","e","a","t","l","e","s">>, <<"b","e","a","t","l","e","s">>, "ORG", 3, 0, <<1>>, <<>>) >>,
      << EntityOverride(<<"C","o","r","d","e","l">>, <<"c","o","r","d","e","l">>, "PSEUDONYM", 1, 1, <<2>>, <<>>),
         EntityOverride(<<"B","e","a","t","l","e","s">>, <<"b","e","a","t","l","e","s">>, "ORG", 3, 0, <<0>>, <<>>) >>,
      << EntityOverride(<<"T","a","g","o","r","e">>, <<"t","a","g","o","r","e">>, "PERSON", 5, 0, <<>>, <<>>),
         EntityOverride(<<"B","e","a","t">>, <<"b","e","a","t">>, "PSEUDONYM", 1, 0, <<1>>, <<>>),
         EntityOverride(<<"B","e","a","t","l","e","s">>, <<"b","e","a","t","l","e","s">>, "ORG", 3, 0, <<>>, <<>>) >> }

RankCols == <<"tier_weight", "has_any_id", "flags_len">>

SortCols == <<"tier_weight", "has_ref_id", "has_any_id", "flags_len">>

OutCols ==
    <<"source_file", "source_sheet", "source_row", "title", "artist", "author", "amount",
      "match_tier", "tier_weight", "original_tier_weight", "promoted_by_entity",
      "promotion_reason", "entity_override_hit", "entity_override_mode",
      "entity_override_best_priority", "entity_override_entities",
      "entity_override_hit_fields", "evidence_flags", "ref_title_norm", "ref_isrc",
      "ref_iswc", "isrc", "iswc">>

InitSweep ==
    /\ pc = "sweep_start"
    /\ ScorerNormMatchIdle /\ SweepIdle /\ ResolveIdle /\ SideIdle

SweepUnchanged == UNCHANGED <<scorevars, normvars, matchvars, resolvevars, config_json, auditvars, cleanvars>>

\* the match_tier column of the scored CSV as score_rows.py writes it, or in
\* upper case between blanks
TierSpellings == {"written", "padded_upper"}

spelled_tier(sp, c) ==
    IF sp = "written" THEN c
    ELSE [match_tier |-> <<" ">> \o [i \in 1..Len(c["match_tier"]) |-> UpperChar(c["match_tier"][i])] \o <<" ">>] @@ c

\* lines 76-91: df = pd.read_csv(scored_path, usecols=usecols) and the rank
\* helper columns
ReadScored ==
    /\ pc = "sweep_start"
    /\ \E rs \in ScoredInputs :
          LET idx    == build_ref_index(SweepReference)
              scored == [p \in 1..Len(rs) |-> scored_cells(rs[p], idx, SweepConfig)]
          IN  \E sp \in TierSpellings :
                LET d == Frame(scored_header(IF rs = <<>> THEN CHOOSE r \in SweepInputRows : TRUE ELSE rs[1]),
                               [p \in 1..Len(rs) |->
                                   [label |-> p - 1, cells |-> spelled_tier(sp, scored[p])]])
                IN  df' = WithColumns(d, <<"tier_weight", "has_ref_id", "has_any_id", "flags_len">>,
                                      [p \in 1..Len(rs) |-> rank_helpers(d.rows[p].cells)])
    /\ pc' = "sweep_read"
    /\ UNCHANGED <<overrides, include_columns_matching, ctl_df, ctl_log, stats_df, top_n, top>>
    /\ SweepUnchanged

\* line 96: overrides = load_entity_overrides(ov_path)
LoadOverrides ==
    /\ pc = "sweep_read"
    /\ overrides' \in SweepOverrideLists
    /\ pc' = "sweep_loaded"
    /\ UNCHANGED <<df, include_columns_matching, ctl_df, ctl_log, stats_df, top_n, top>>
    /\ SweepUnchanged

\* lines 98-103
ComputeHits ==
    /\ pc = "sweep_loaded"
    /\ df' = compute_entity_override_hits(df, overrides, SearchFields, EvidenceFieldAliases, <<>>)
    /\ stats_df' = stats(df, overrides, SearchFields, EvidenceFieldAliases, <<>>)
    /\ pc' = "sweep_hits"
    /\ UNCHANGED <<overrides, include_columns_matching, ctl_df, ctl_log, top_n, top>>
    /\ SweepUnchanged

\* line 118: df["evidence_flags"] = df.apply(_append_flag, axis=1)
AppendFlag ==
    /\ pc = "sweep_hits"
    /\ df' = WithColumns(df, <<"evidence_flags">>,
                         [p \in 1..Len(df.rows) |-> [evidence_flags |-> append_flag(df.rows[p].cells)]])
    /\ pc' = "sweep_flagged"
    /\ UNCHANGED <<overrides, include_columns_matching, ctl_df, ctl_log, stats_df, top_n, top>>
    /\ SweepUnchanged

\* lines 121-124
ClassifyMode ==
    /\ pc = "sweep_flagged"
    /\ df' = WithColumns(df, <<"entity_override_mode">>,
                         [p \in 1..Len(df.rows) |->
                             [entity_override_mode |-> sweep_mode(df.columns, df.rows[p].cells)]])
    /\ pc' = "sweep_classified"
    /\ UNCHANGED <<overrides, include_columns_matching, ctl_df, ctl_log, stats_df, top_n, top>>
    /\ SweepUnchanged

\* lines 130-139
Promote ==
    /\ pc = "sweep_classified"
    /\ df' = WithColumns(df, <<"original_tier_weight", "tier_weight">>,
                         [p \in 1..Len(df.rows) |->
                             [ original_tier_weight |-> df.rows[p].cells["tier_weight"],
                               tier_weight |-> promote(df.rows[p].cells) ]])
    /\ pc' = "sweep_promoted"
    /\ UNCHANGED <<overrides, include_columns_matching, ctl_df, ctl_log, stats_df, top_n, top>>
    /\ SweepUnchanged

\* lines 142-146
ApplyControls ==
    /\ pc = "sweep_promoted"
    /\ ctl_df' = df
    /\ ctl_log' = control_loop(df.rows, <<>>, overrides, 1, RankCols).log
    /\ df' = apply_noisy_entity_controls(df, overrides, RankCols)
    /\ pc' = "sweep_controlled"
    /\ UNCHANGED <<overrides, include_columns_matching, stats_df, top_n, top>>
    /\ SweepUnchanged

\* line 149: df = df[df["tier_weight"] > 0]
KeepMatched ==
    /\ pc = "sweep_controlled"
    /\ df' = Frame(df.columns, SelectSeq(df.rows, LAMBDA r : r.cells["tier_weight"] > 0))
    /\ pc' = "sweep_matched"
    /\ UNCHANGED <<overrides, include_columns_matching, ctl_df, ctl_log, stats_df, top_n, top>>
    /\ SweepUnchanged

\* lines 152-157
AddPromotionColumns ==
    /\ pc = "sweep_matched"
    /\ df' = WithColumns(df, <<"promoted_by_entity", "promotion_reason">>,
                         [p \in 1..Len(df.rows) |->
                             LET c == df.rows[p].cells
                                 up == c["tier_weight"] > c["original_tier_weight"]
                             IN  [ promoted_by_entity |-> IF up THEN 1 ELSE 0,
                                   promotion_reason |-> IF up THEN c["entity_override_mode"] ELSE "" ]])
    /\ pc' = "sweep_columns"
    /\ UNCHANGED <<overrides, include_columns_matching, ctl_df, ctl_log, stats_df, top_n, top>>
    /\ SweepUnchanged

\* line 159
SortRows ==
    /\ pc = "sweep_columns"
    /\ df' = Frame(df.columns, sort_values_descending(df.rows, SortCols))
    /\ pc' = "sweep_sorted"
    /\ UNCHANGED <<overrides, include_columns_matching, ctl_df, ctl_log, stats_df, top_n, top>>
    /\ SweepUnchanged

\* lines 161-191: top = df.head(args.top_n); top[out_cols].to_csv(out_csv)
WriteTop ==
    /\ pc = "sweep_sorted"
    /\ \E n \in {1, 2, DefaultTopN} :
          /\ top_n' = n
          /\ top' = LET out_cols == SelectSeq(OutCols, LAMBDA c : InSeq(c, df.columns))
                        rows == head(df.rows, n)
                    IN  Frame(out_cols,
                              [p \in 1..Len(rows) |->
                                  [ label |-> rows[p].label,
                                    cells |-> [c \in Range(out_cols) |-> rows[p].cells[c]] ]])
    /\ pc' = "sweep_done"
    /\ UNCHANGED <<df, overrides, include_columns_matching, ctl_df, ctl_log, stats_df>>
    /\ SweepUnchanged

NextSweep ==
    \/ ReadScored \/ LoadOverrides \/ ComputeHits \/ AppendFlag \/ ClassifyMode
    \/ Promote \/ ApplyControls \/ KeepMatched \/ AddPromotionColumns \/ SortRows
    \/ WriteTop

SpecSweep == InitSweep /\ [][NextSweep]_vars

----------------------------------------------------------------------------
(* the promotion and the noise controls of the sweep *)

SweepRows == {df.rows[p].cells : p \in 1..Len(df.rows)}

AfterPromotion ==
    pc \in {"sweep_promoted", "sweep_controlled", "sweep_matched", "sweep_columns",
            "sweep_sorted", "sweep_done"}

AfterPromotionColumns == pc \in {"sweep_columns", "sweep_sorted", "sweep_done"}

\* the weight of the tier the scorer gave the row
ScorerWeight(c) == tier_weight(c["match_tier"])

IdMatched(c) ==
    \/ Contains(<<"I","S","R","C","_","M","A","T","C","H">>, c["evidence_flags"])
    \/ Contains(<<"I","S","W","C","_","M","A","T","C","H">>, c["evidence_flags"])

\* C16 as stated: every scored row classified ENTITY_PLUS_ID has tier Gold
C16_PlusIdIsGold ==
    AfterPromotion =>
        \A c \in SweepRows :
            c["entity_override_mode"] = "ENTITY_PLUS_ID" => ScorerWeight(c) = 3

\* C16: a row with an entity hit whose ISRC or ISWC the scorer matched is
\* ENTITY_PLUS_ID and Gold, and every ENTITY_PLUS_ID row keeps the weight
\* of the tier the scorer gave it, whatever that tier is
C16_PlusIdKeepsTier ==
    AfterPromotion =>
        \A c \in SweepRows :
            /\ (c["entity_override_hit"] = 1 /\ IdMatched(c)) =>
                   c["entity_override_mode"] = "ENTITY_PLUS_ID" /\ ScorerWeight(c) = 3
            /\ c["entity_override_mode"] = "ENTITY_PLUS_ID" =>
                   /\ AnyIdPresent(c)
                   /\ c["tier_weight"] = ScorerWeight(c)

C16_Witness ==
    /\ pc = "sweep_promoted"
    /\ \E c \in SweepRows :
          c["entity_override_hit"] = 1 /\ IdMatched(c) /\ c["tier_weight"] = 3
    /\ \E c \in SweepRows :
          c["entity_override_mode"] = "ENTITY_PLUS_ID" /\ ~IdMatched(c) /\ c["tier_weight"] = 2

\* the entities recorded for the row
HitEntity(c, ent) ==
    c["entity_override_hit"] = 1 /\ InSeq(ent.entity_norm, SplitSemi(c["entity_override_entities"]))

HasCoevidence(c) ==
    \/ Contains(<<"T","I","T","L","E","_","E","X","A","C","T">>, c["evidence_flags"])
    \/ Contains(<<"A","R","T","I","S","T","_","T","O","K","E","N","_","O","V","E","R","L","A","P">>, c["evidence_flags"])
    \/ AnyIdPresent(c)

Retained(r) == \E p \in 1..Len(df.rows) : df.rows[p] = r

ControlledRows == {ctl_df.rows[p] : p \in 1..Len(ctl_df.rows)}

Overrides == {overrides[k] : k \in 1..Len(overrides)}

RemovedByCap(r) == \E k \in 1..Len(ctl_log) : r.label \in ctl_log[k].over_cap

\* C17: after the controls no retained row that hit an entity requiring
\* co-evidence lacks all of TITLE_EXACT, ARTIST_TOKEN_OVERLAP and an
\* identifier, and every hit row of such an entity that has one of them is
\* retained unless a cap removed it
C17_Coevidence ==
    pc = "sweep_controlled" =>
        \A r \in ControlledRows :
            \A ent \in Overrides :
                (ent.requires_coevidence # 0 /\ HitEntity(r.cells, ent)) =>
                    /\ Retained(r) => HasCoevidence(r.cells)
                    /\ HasCoevidence(r.cells) => (Retained(r) \/ RemovedByCap(r))

C17_Witness ==
    /\ pc = "sweep_controlled"
    /\ \E ent \in Overrides :
          /\ ent.requires_coevidence # 0
          /\ \E r \in ControlledRows :
                HitEntity(r.cells, ent) /\ ~HasCoevidence(r.cells) /\ ~Retained(r)
          /\ \E r \in ControlledRows :
                /\ HitEntity(r.cells, ent) /\ Retained(r)
                /\ AnyIdPresent(r.cells)
                /\ ~Contains(<<"T","I","T","L","E","_","E","X","A","C","T">>, r.cells["evidence_flags"])
                /\ ~Contains(<<"A","R","T","I","S","T","_","T","O","K","E","N","_","O","V","E","R","L","A","P">>, r.cells["evidence_flags"])

RankOf(c) ==
    << c["tier_weight"], IF c["has_any_id"] THEN 1 ELSE 0, c["flags_len"] >>

RanksHigher(a, b) ==
    \/ a[1] > b[1]
    \/ a[1] = b[1] /\ a[2] > b[2]
    \/ a[1] = b[1] /\ a[2] = b[2] /\ a[3] > b[3]

PassedCoevidence(r, ent) == ent.requires_coevidence = 0 \/ HasCoevidence(r.cells)

RetainedHits(ent) == {r \in ControlledRows : HitEntity(r.cells, ent) /\ Retained(r)}

\* C18 as stated: for every entity with a cap N at most N hit rows are
\* retained and no removed hit row that passed co-evidence ranks higher
\* than a retained hit row, for any number of controlled entities
C18_CapKeepsBest ==
    pc = "sweep_controlled" =>
        \A ent \in Overrides :
            ent.per_term_cap # <<>> =>
                /\ Cardinality(RetainedHits(ent)) <= ent.per_term_cap[1]
                /\ \A r \in ControlledRows :
                      (HitEntity(r.cells, ent) /\ ~Retained(r) /\ PassedCoevidence(r, ent)) =>
                          \A k \in RetainedHits(ent) : ~RanksHigher(RankOf(r.cells), RankOf(k.cells))

\* the rows the pass of ent removed by its cap
CappedBy(ent) ==
    {r \in ControlledRows :
        \E k \in 1..Len(ctl_log) : ctl_log[k].entity = ent.entity_norm /\ r.label \in ctl_log[k].over_cap}

\* C18: for every entity with a cap N >= 1 at most N hit rows are retained,
\* and no hit row removed by that entity's own cap ranks higher than a
\* retained hit row of it; a cap of 0 removes nothing
C18_OwnCapKeepsBest ==
    pc = "sweep_controlled" =>
        \A ent \in Overrides :
            /\ (ent.per_term_cap # <<>> /\ ent.per_term_cap[1] >= 1) =>
                  /\ Cardinality(RetainedHits(ent)) <= ent.per_term_cap[1]
                  /\ \A r \in CappedBy(ent) :
                        \A k \in RetainedHits(ent) : ~RanksHigher(RankOf(r.cells), RankOf(k.cells))
            /\ ent.per_term_cap = <<0>> => CappedBy(ent) = {}

C18_Witness ==
    /\ pc = "sweep_controlled"
    /\ \E ent \in Overrides :
          /\ ent.per_term_cap = <<2>>
          /\ Cardinality(RetainedHits(ent)) = 2
          /\ \E r \in CappedBy(ent), k \in RetainedHits(ent) :
                HitEntity(r.cells, ent) /\ RanksHigher(RankOf(k.cells), RankOf(r.cells))
    /\ \E ent \in Overrides :
          /\ ent.per_term_cap = <<0>>
          /\ RetainedHits(ent) # {}

----------------------------------------------------------------------------
(* scripts/field_detection.py: resolve_fields *)

\* set(s.split()) for a normalized string, whose only whitespace is " "
split_set(s) ==
    LET n == Len(s)
        starts == {i \in 1..n : s[i] # " " /\ (i = 1 \/ s[i - 1] = " ")}
        ends   == {j \in 1..n : s[j] # " " /\ (j = n \/ s[j + 1] = " ")}
    IN  {SubSeq(s, i, SetMin({j \in ends : j >= i})) : i \in starts}

Candidate(field, column, header_norm, score) ==
    [field |-> field, column |-> column, header_norm |-> header_norm, score |-> score]

\* the mutant lets a blank synonym match every header
candidate_score_blank_synonym(hn, syns_norm) ==
    IF InSeq(hn, syns_norm) THEN 100
    ELSE IF \E k \in 1..Len(syns_norm) : split_set(syns_norm[k]) \subseteq split_set(hn) THEN 60
    ELSE 0

\* the score of the header hn for a field with the synonyms syns_norm, 0 for
\* no candidate
candidate_score(hn, syns_norm) ==
    IF InSeq(hn, syns_norm) THEN 100
    ELSE IF \E k \in 1..Len(syns_norm) :
               /\ split_set(syns_norm[k]) # {}
               /\ split_set(syns_norm[k]) \subseteq split_set(hn)
         THEN 60
    ELSE 0

\* result[field] before the sort
field_candidates(field, syns, hs) ==
    LET syns_norm == [k \in 1..Len(syns) |-> norm_header(syns[k])]
        hit == Ascending({i \in 1..Len(hs) :
                   norm_header(hs[i]) # <<>> /\ candidate_score(norm_header(hs[i]), syns_norm) > 0})
    IN  [k \in 1..Len(hit) |->
            Candidate(field, hs[hit[k]], norm_header(hs[hit[k]]),
                      candidate_score(norm_header(hs[hit[k]]), syns_norm))]

\* list.sort(key=lambda c: (c.score, len(c.header_norm)), reverse=True):
\* the greater key first, candidates of equal key in their order
sort_candidates(cands) ==
    LET n == Len(cands)
        Greater(a, b) == \/ a.score > b.score
                         \/ a.score = b.score /\ Len(a.header_norm) > Len(b.header_norm)
        Before(i, j) == \/ Greater(cands[i], cands[j])
                        \/ (~Greater(cands[j], cands[i]) /\ i < j)
    IN  [k \in 1..n |-> cands[CHOOSE i \in 1..n : Cardinality({j \in 1..n : Before(j, i)}) = k - 1]]

\* synonyms is the list of the items of the dict
resolve_fields(hs, syn) ==
    [field \in {syn[k].k : k \in 1..Len(syn)} |->
        sort_candidates(field_candidates(field, DictGet(syn, field, <<>>), hs))]

\* the header list has at most MaxHeaders headers
MaxHeaders == 2

HeaderPool ==
    { <<"O","b","r","a">>, <<"A","u","t","o","r">>, <<"I","S","R","C">>, <<"T","i","t","u","l","o">>, <<"T","i","t","u","l","o"," ","d","a"," ","O","b","r","a">>,
      <<"A","u","t","o","r","e","s"," ","d","a"," ","M","u","s","i","c","a">>, <<"O","b","r","a"," ","M","u","s","i","c","a">>, <<"C","o","d","."," ","I","S","R","C">>, <<"#">> }

HeaderLists == UNION { [1..n -> HeaderPool] : n \in 0..MaxHeaders }

SynonymTables ==
    { << [k |-> "title", v |-> << <<"o","b","r","a">>, <<"t","i","t","u","l","o">>, <<"t","i","t","u","l","o"," ","d","a"," ","o","b","r","a">> >>],
         [k |-> "author", v |-> << <<"a","u","t","o","r">>, <<"a","u","t","o","r","e","s"," ","d","a"," ","m","u","s","i","c","a">> >>],
         [k |-> "isrc", v |-> << <<"i","s","r","c">> >>] >>,
      << [k |-> "title", v |-> << <<"o","b","r","a">>, <<"m","u","s","i","c","a">> >>],
         [k |-> "author", v |-> << <<"a","u","t","o","r","e","s"," ","d","a"," ","m","u","s","i","c","a">>, <<"a","u","t","o","r">> >>],
         [k |-> "artist", v |-> << <<"-","-">>, <<"i","n","t","e","r","p","r","e","t","e">> >>] >>,
      << [k |-> "title", v |-> << <<"O","B","R","A">>, <<"T","i","t","u","l","o","-","d","a","-","O","b","r","a">> >>],
         [k |-> "author", v |-> <<>>] >> }

InitResolve ==
    /\ pc = "resolve_args"
    /\ ScorerNormMatchIdle /\ SweepIdle /\ SideIdle
    /\ headers \in HeaderLists
    /\ synonyms \in SynonymTables
    /\ result = <<>>

ResolveFields ==
    /\ pc = "resolve_args"
    /\ result' = resolve_fields(headers, synonyms)
    /\ pc' = "resolved"
    /\ UNCHANGED <<headers, synonyms, scorevars, normvars, matchvars, sweepvars,
                   config_json, auditvars, cleanvars>>

NextResolve == ResolveFields

SpecResolve == InitResolve /\ [][NextResolve]_vars

Fields == {synonyms[k].k : k \in 1..Len(synonyms)}

SynonymsOf(f) == LET k == CHOOSE k \in 1..Len(synonyms) : synonyms[k].k = f IN Range(synonyms[k].v)

ExactFor(f, h) == \E s \in SynonymsOf(f) : norm_header(s) = norm_header(h)

SubsetFor(f, h) ==
    \E s \in SynonymsOf(f) :
        /\ split_set(norm_header(s)) # {}
        /\ split_set(norm_header(s)) \subseteq split_set(norm_header(h))

\* the score the rules give the header h for the field f, 0 for none
ExpectedScore(f, h) ==
    IF norm_header(h) = <<>> THEN 0
    ELSE IF ExactFor(f, h) THEN 100
    ELSE IF SubsetFor(f, h) THEN 60
    ELSE 0

CandidatesOf(f, h) == {i \in 1..Len(result[f]) : result[f][i].column = h}

\* one candidate per header that scores, with the score of the rules
OneCandidatePerHeader ==
    /\ DOMAIN result = Fields
    /\ \A f \in Fields :
          /\ \A i \in 1..Len(result[f]) :
                /\ result[f][i].field = f
                /\ InSeq(result[f][i].column, headers)
                /\ result[f][i].header_norm = norm_header(result[f][i].column)
                /\ result[f][i].score = ExpectedScore(f, result[f][i].column)
                /\ result[f][i].score \in {60, 100}
          /\ \A h \in Range(headers) :
                Cardinality(CandidatesOf(f, h)) =
                    IF ExpectedScore(f, h) = 0 THEN 0
                    ELSE Cardinality({i \in 1..Len(headers) : headers[i] = h})

\* every header equals a synonym of exactly one field and matches nothing else
EachHeaderOneField ==
    \A i \in 1..Len(headers) :
        /\ Cardinality({f \in Fields : ExpectedScore(f, headers[i]) = 100}) = 1
        /\ \A f \in Fields : ExpectedScore(f, headers[i]) \in {0, 100}

FieldOf(h) == CHOOSE f \in Fields : ExpectedScore(f, h) = 100

ExactlyOneTop(f) == Len(result[f]) = 1 /\ result[f][1].score = 100

\* C19 as stated: one candidate per scoring header with score 100 or 60 by
\* the rules, and when each header equals a synonym of exactly one field and
\* matches nothing else, each such field has exactly one candidate, of
\* score 100
C19_ResolveFields ==
    pc = "resolved" =>
        /\ OneCandidatePerHeader
        /\ EachHeaderOneField => \A h \in Range(headers) : ExactlyOneTop(FieldOf(h))

\* C19: one candidate per scoring header with score 100 or 60 by the rules;
\* when each header equals a synonym of exactly one field and matches
\* nothing else, and no two headers belong to the same field, each such
\* field has exactly one candidate, of score 100
C19_ResolveFieldsDistinct ==
    pc = "resolved" =>
        /\ OneCandidatePerHeader
        /\ ( /\ EachHeaderOneField
             /\ \A i, j \in 1..Len(headers) : FieldOf(headers[i]) = FieldOf(headers[j]) => i = j )
           => \A h \in Range(headers) : ExactlyOneTop(FieldOf(h))

C19_Witness ==
    /\ pc = "resolved"
    /\ Len(headers) = 2
    /\ EachHeaderOneField
    /\ FieldOf(headers[1]) # FieldOf(headers[2])
    /\ ExactlyOneTop(FieldOf(headers[1])) /\ ExactlyOneTop(FieldOf(headers[2]))

\* a header that is a candidate for two fields, one that normalizes to the
\* empty string, and a blank synonym
C19_WitnessSeveralFields ==
    /\ pc = "resolved"
    /\ \E h \in Range(headers) :
          \E f, g \in Fields : f # g /\ ExpectedScore(f, h) = 100 /\ ExpectedScore(g, h) = 60
    /\ \E h \in Range(headers) : norm_header(h) = <<>>
    /\ \E f \in Fields : \E s \in SynonymsOf(f) : norm_header(s) = <<>>

\* C20: every candidate list is ordered by score descending and, among
\* equal scores, by normalized header length ascending
C20_ShortestFirst ==
    pc = "resolved" =>
        \A f \in Fields :
            \A i, j \in 1..Len(result[f]) :
                i < j =>
                    \/ result[f][i].score > result[f][j].score
                    \/ /\ result[f][i].score = result[f][j].score
                       /\ Len(result[f][i].header_norm) <= Len(result[f][j].header_norm)

\* what the sort does: among equal scores the longer header comes first
C20_LongestFirst ==
    pc = "resolved" =>
        \A f \in Fields :
            \A i, j \in 1..Len(result[f]) :
                i < j =>
                    \/ result[f][i].score > result[f][j].score
                    \/ /\ result[f][i].score = result[f][j].score
                       /\ Len(result[f][i].header_norm) >= Len(result[f][j].header_norm)

----------------------------------------------------------------------------
(* the order of the sweep and its top rows *)

\* Gold=3, Silver=2, Bronze=1, anything else 0, whatever the case and the
\* blanks around the name
WeightOfTier(t) ==
    LET name == {n \in {<<"g","o","l","d">>, <<"s","i","l","v","e","r">>, <<"b","r","o","n","z","e">>} :
                    \E a, b \in 0..Len(t) :
                        /\ a + Len(n) + b = Len(t)
                        /\ \A i \in 1..a : t[i] = " "
                        /\ \A i \in (Len(t) - b + 1)..Len(t) : t[i] = " "
                        /\ \A i \in 1..Len(n) : LowerChar(t[a + i]) = n[i]}
    IN  IF <<"g","o","l","d">> \in name THEN 3
        ELSE IF <<"s","i","l","v","e","r">> \in name THEN 2
        ELSE IF <<"b","r","o","n","z","e">> \in name THEN 1
        ELSE 0

SweepKey(c) ==
    << c["tier_weight"], IF c["has_ref_id"] THEN 1 ELSE 0,
       IF c["has_any_id"] THEN 1 ELSE 0, c["flags_len"] >>

KeyHigher(a, b) ==
    \E k \in 1..4 : a[k] > b[k] /\ \A i \in 1..(k - 1) : a[i] = b[i]

BeforePromotion ==
    pc \in {"sweep_read", "sweep_loaded", "sweep_hits", "sweep_flagged", "sweep_classified"}

\* C21: the tier_weight column starts as Gold=3, Silver=2, Bronze=1, else 0
\* (case-insensitive, trimmed); the sorted frame is non-increasing in the
\* key (tier_weight, has_ref_id, has_any_id, flags_len); the top-N output is
\* the first N rows of it, no row left out has a greater key than a row
\* kept, and every row kept has tier_weight > 0
C21_SweepOrder ==
    /\ BeforePromotion =>
          \A c \in SweepRows : c["tier_weight"] = WeightOfTier(c["match_tier"])
    /\ pc \in {"sweep_sorted", "sweep_done"} =>
          /\ \A i, j \in 1..Len(df.rows) :
                i < j => ~KeyHigher(SweepKey(df.rows[j].cells), SweepKey(df.rows[i].cells))
          /\ \A c \in SweepRows : c["tier_weight"] > 0
    /\ pc = "sweep_done" =>
          /\ Len(top.rows) = (IF top_n < Len(df.rows) THEN top_n ELSE Len(df.rows))
          /\ \A p \in 1..Len(top.rows) :
                /\ top.rows[p].label = df.rows[p].label
                /\ top.rows[p].cells["tier_weight"] = df.rows[p].cells["tier_weight"]
                /\ top.rows[p].cells["tier_weight"] > 0
          /\ \A p \in 1..Len(top.rows), q \in (Len(top.rows) + 1)..Len(df.rows) :
                ~KeyHigher(SweepKey(df.rows[q].cells), SweepKey(df.rows[p].cells))

C21_Witness ==
    /\ pc = "sweep_done"
    /\ top_n = 1
    /\ Len(df.rows) = 3
    /\ KeyHigher(SweepKey(df.rows[1].cells), SweepKey(df.rows[2].cells))
    /\ KeyHigher(SweepKey(df.rows[2].cells), SweepKey(df.rows[3].cells))
    /\ df.rows[1].label > df.rows[3].label
    /\ df.rows[1].cells["match_tier"] = <<" ","G","O","L","D"," ">>

----------------------------------------------------------------------------
(* scripts/entity_overrides.py: load_entity_overrides *)

\* int(s) for a string of decimal digits
int(s) ==
    LET digit(ch) == CHOOSE v \in 0..9 : <<"0","1","2","3","4","5","6","7","8","9">>[v + 1] = ch
    IN  IF Len(s) = 1 THEN digit(s[1])
        ELSE 10 * digit(s[1]) + digit(s[2])

\* str(r.get(k, default)).strip()
row_get(cells, k, default) == Strip(IF k \in DOMAIN cells THEN cells[k] ELSE default)

\* the EntityOverride appended for a configuration row (entity_type is kept
\* as text here)
override_of_row(cells) ==
    LET et    == Upper(row_get(cells, "entity_type", <<"P","E","R","S","O","N">>))
        pr    == row_get(cells, "priority", <<"0">>)
        rc    == row_get(cells, "requires_coevidence", <<"0">>)
        cap_s == row_get(cells, "per_term_cap", <<>>)
    IN  EntityOverride(row_get(cells, "entity_raw", <<>>),
                       entity_norm_text(row_get(cells, "entity_norm", <<>>)),
                       IF et = <<>> THEN <<"P","E","R","S","O","N">> ELSE et,
                       IF pr = <<>> THEN 0 ELSE int(pr),
                       IF rc = <<>> THEN 0 ELSE int(rc),
                       IF cap_s = <<>> THEN <<>> ELSE <<int(cap_s)>>,
                       row_get(cells, "notes", <<>>))

\* out: the rows with an entity_raw and an entity_norm, in file order
loaded_rows(d) ==
    LET keep == SelectSeq(d.rows, LAMBDA r : /\ row_get(r.cells, "entity_raw", <<>>) # <<>>
                                              /\ row_get(r.cells, "entity_norm", <<>>) # <<>>)
    IN  [k \in 1..Len(keep) |-> override_of_row(keep[k].cells)]

\* the mutant keeps the first row of each entity_norm
dedupe_first(out) ==
    LET firsts == Ascending({i \in 1..Len(out) : \A j \in 1..(i - 1) : out[j].entity_norm # out[i].entity_norm})
    IN  [k \in 1..Len(firsts) |-> out[firsts[k]]]

\* uniq[o.entity_norm] = o for o in out; list(uniq.values()): the keys in
\* the order of their first row, each with the value of its last row
dedupe(out) ==
    LET firsts == Ascending({i \in 1..Len(out) : \A j \in 1..(i - 1) : out[j].entity_norm # out[i].entity_norm})
    IN  [k \in 1..Len(firsts) |->
            out[SetMax({j \in 1..Len(out) : out[j].entity_norm = out[firsts[k]].entity_norm})]]

load_entity_overrides(d) == dedupe(loaded_rows(d))

\* the configuration file has at most MaxConfigRows rows
MaxConfigRows == 3

ConfigColumns ==
    { <<"entity_raw", "entity_norm", "entity_type", "priority", "requires_coevidence",
        "per_term_cap", "notes">>,
      <<"entity_raw", "entity_norm", "priority", "requires_coevidence">> }

\* rows of config/estelita_entity_overrides.csv (entity_raw, entity_norm,
\* entity_type, priority, requires_coevidence, per_term_cap, notes)
ConfigRows ==
    { [entity_raw |-> t[1], entity_norm |-> t[2], entity_type |-> t[3], priority |-> t[4],
       requires_coevidence |-> t[5], per_term_cap |-> t[6], notes |-> t[7]] :
        t \in { <<<<"T","a","g","o","r","e">>, <<"t","a","g","o","r","e">>, <<"P","E","R","S","O","N">>, <<"5">>, <<"0">>, <<>>, <<"x">>>>,
                <<<<"T","a","g","o","r","e"," ","S",".">>, <<"T","a","g","o","r","e">>, <<"o","r","g">>, <<"3">>, <<"1">>, <<"2">>, <<>>>>,
                <<<<"T">>, <<" ","T","A","G","O","R","E"," ">>, <<"P","s","e","u","d","o","n","y","m">>, <<"0">>, <<"0">>, <<"1","0">>, <<>>>>,
                <<<<"C","o","r","d","e","l">>, <<"c","o","r","d","e","l">>, <<>>, <<"1">>, <<"1">>, <<>>, <<>>>>,
                <<<<"C","o","r","d","e","l"," ","d","o"," ","F","o","g","o">>, <<"c","o","r","d","e","l","-","d","o","-","f","o","g","o">>, <<"P","S","E","U","D","O","N","Y","M">>, <<>>, <<>>, <<"0">>, <<>>>>,
                <<<<>>, <<"g","h","o","s","t">>, <<"P","E","R","S","O","N">>, <<"1">>, <<"0">>, <<>>, <<>>>>,
                <<<<"D","a","s","h">>, <<"-","-">>, <<"P","E","R","S","O","N">>, <<"2">>, <<"0">>, <<>>, <<>>>> } }

\* pd.read_csv(path, dtype=str).fillna("")
ConfigFrames ==
    { Frame(cols, [p \in 1..Len(rs) |->
                      [label |-> p - 1, cells |-> [c \in Range(cols) |-> rs[p][c]]]]) :
        cols \in ConfigColumns,
        rs \in UNION { [1..n -> ConfigRows] : n \in 0..MaxConfigRows } }

InitLoad ==
    /\ pc = "load_args"
    /\ ScorerNormMatchIdle /\ ResolveIdle /\ SideIdle
    /\ df \in ConfigFrames
    /\ overrides = <<>>
    /\ include_columns_matching = <<>>
    /\ ctl_df = <<>> /\ ctl_log = <<>> /\ stats_df = <<>> /\ top_n = 0 /\ top = <<>>

\* overrides = load_entity_overrides(ov_path)
LoadEntityOverrides ==
    /\ pc = "load_args"
    /\ overrides' = load_entity_overrides(df)
    /\ pc' = "loaded"
    /\ UNCHANGED <<scorevars, normvars, matchvars, df, include_columns_matching,
                   ctl_df, ctl_log, stats_df, top_n, top, resolvevars, config_json, auditvars, cleanvars>>

NextLoad == LoadEntityOverrides

SpecLoad == InitLoad /\ [][NextLoad]_vars

\* the configuration rows the loader accepts
AcceptedRows ==
    {p \in 1..Len(df.rows) :
        /\ Strip(df.rows[p].cells["entity_raw"]) # <<>>
        /\ Strip(df.rows[p].cells["entity_norm"]) # <<>>}

NormOfRow(p) == entity_norm_text(df.rows[p].cells["entity_norm"])

RowsOf(o) == {p \in AcceptedRows : NormOfRow(p) = o.entity_norm}

OnePerEntityNorm ==
    /\ \A i, j \in 1..Len(overrides) :
          overrides[i].entity_norm = overrides[j].entity_norm => i = j
    /\ {overrides[k].entity_norm : k \in 1..Len(overrides)} = {NormOfRow(p) : p \in AcceptedRows}

\* C22: the loader returns at most one EntityOverride per normalized
\* entity_norm, with the attributes of the first configuration row of that
\* entity_norm
C22_FirstLoadedWins ==
    pc = "loaded" =>
        /\ OnePerEntityNorm
        /\ \A k \in 1..Len(overrides) :
              overrides[k] = override_of_row(df.rows[SetMin(RowsOf(overrides[k]))].cells)

\* what the loader does: the attributes are those of the last row
C22_LastLoadedWins ==
    pc = "loaded" =>
        /\ OnePerEntityNorm
        /\ \A k \in 1..Len(overrides) :
              overrides[k] = override_of_row(df.rows[SetMax(RowsOf(overrides[k]))].cells)

----------------------------------------------------------------------------
(* the configuration the scorer runs with *)

RequiredKeys == {"gold_tokens", "negative_title_triggers"}

\* the configuration file lacks a required key
MissingKey == config_json # <<>> /\ ~(RequiredKeys \subseteq DOMAIN config_json[1])

\* C23: a configuration that lacks gold_tokens or negative_title_triggers is
\* fatal at start-up: load_config returns no config for it and no row is
\* scored with an empty list in place of the missing key
C23_MissingKeyIsFatal ==
    /\ pc = "config" => ~MissingKey
    /\ pc = "scored" => ~MissingKey

\* what the code does: the missing key is an empty list and rows are scored
C23_MissingKeyDefaultsEmpty ==
    (pc \in {"config", "ready", "row", "scored", "done"} /\ MissingKey) =>
        \A k \in RequiredKeys \ DOMAIN config_json[1] : cfg[k] = <<>>

----------------------------------------------------------------------------
(* scripts/audit_known_good_mapping.py: header-row detection *)

StartsWith(s, prefix) ==
    Len(s) >= Len(prefix) /\ SubSeq(s, 1, Len(prefix)) = prefix

\* the tokens that mark a header row
HeaderTokens ==
    { <<"o","b","r","a">>, <<"m","u","s","i","c","a">>, <<"t","i","t","u","l","o">>, <<"r","e","p","e","r","t","o","r","i","o">>, <<"i","s","r","c">>, <<"a","u","t","o","r">>, <<"a","u","t","o","r","e","s">>,
      <<"c","o","m","p","o","s","i","t","o","r">>, <<"i","n","t","e","r","p","r","e","t","e">>, <<"a","r","t","i","s","t","a">>, <<"p","r","o","g","r","a","m","a">>, <<"d","a","t","a">>, <<"c","a","n","a","l">> }

\* what one header adds to header_quality_score
header_points(h, syn_flat) ==
    LET hn == norm_header(h)
        nb == SelectSeq(hn, LAMBDA ch : ch # " ")
    IN  IF hn = <<>> THEN 0
        ELSE IF StartsWith(hn, <<"u","n","n","a","m","e","d">>) THEN -5
        ELSE (IF nb # <<>> /\ \A i \in 1..Len(nb) : nb[i] \in AsciiDigit THEN -2 ELSE 0)
             + 1
             + (IF hn \in syn_flat THEN 6 ELSE 0)
             + (IF split_set(hn) \cap HeaderTokens # {} THEN 3 ELSE 0)

RECURSIVE SumTo(_, _)
SumTo(q, n) == IF n = 0 THEN 0 ELSE SumTo(q, n - 1) + q[n]

header_quality_score(hs, syn) ==
    LET syn_flat == UNION {{norm_header(syn[k].v[i]) : i \in 1..Len(syn[k].v)} : k \in 1..Len(syn)}
    IN  SumTo([i \in 1..Len(hs) |-> header_points(hs[i], syn_flat)], Len(hs))

should_detect_header_row(hs, has_title, has_people) ==
    LET unnamed == Cardinality({i \in 1..Len(hs) : StartsWith(norm_header(hs[i]), <<"u","n","n","a","m","e","d">>)})
    IN  \/ ~(has_title /\ has_people)
        \/ hs = <<>>
        \/ 10 * unnamed >= 6 * (IF Len(hs) > 1 THEN Len(hs) ELSE 1)

\* the mutant takes the latest of the rows of the best score
RECURSIVE scan_rows_latest(_, _, _, _, _)
scan_rows_latest(df0, syn, i, idx, score) ==
    IF i > Len(df0) THEN [best_idx |-> idx, best_score |-> score]
    ELSE LET sc == header_quality_score(df0[i], syn)
         IN  IF sc >= score /\ sc > 0 THEN scan_rows_latest(df0, syn, i + 1, <<i - 1>>, sc)
             ELSE scan_rows_latest(df0, syn, i + 1, idx, score)

\* for i in range(len(df0)), from the row at position i on (rows are
\* numbered from 0)
RECURSIVE scan_rows_from(_, _, _, _, _)
scan_rows_from(df0, syn, i, idx, score) ==
    IF i > Len(df0) THEN [best_idx |-> idx, best_score |-> score]
    ELSE LET sc == header_quality_score(df0[i], syn)
         IN  IF sc > score THEN scan_rows_from(df0, syn, i + 1, <<i - 1>>, sc)
             ELSE scan_rows_from(df0, syn, i + 1, idx, score)

\* xl.parse(sheet, header=None, dtype=str, nrows=scan_rows).fillna("")
parse_no_header(sh, nrows) == SubSeq(sh, 1, IF nrows < Len(sh) THEN nrows ELSE Len(sh))

detect_best_header_row(sh, syn, nrows) ==
    scan_rows_from(parse_no_header(sh, nrows), syn, 1, <<>>, 0)

\* the column labels pandas gives when the cells of a row are the header:
\* "Unnamed: k" for an empty cell, a numbered suffix for a repeated label
column_labels(cells) ==
    LET digit(n) == <<"0","1","2","3","4","5","6","7","8","9">>[n + 1]
    IN  [k \in 1..Len(cells) |->
            LET seen == Cardinality({j \in 1..(k - 1) : cells[j] = cells[k]})
            IN  IF cells[k] = <<>> THEN <<"U","n","n","a","m","e","d",":"," ">> \o <<digit(k - 1)>>
                ELSE IF seen > 0 THEN cells[k] \o <<".", digit(seen)>>
                ELSE cells[k]]

\* [str(c) for c in xl.parse(sh, header=i).columns], rows numbered from 0
parse_headers(sh, i) == IF Len(sh) <= i THEN <<>> ELSE column_labels(sh[i + 1])

\* res.get(field, [])
res_get(r, field) == IF field \in DOMAIN r THEN r[field] ELSE <<>>

\* the sheet has at most MaxSheetRows rows
MaxSheetRows == 3

DefaultHeaderScanRows == 120

SheetRows ==
    { <<<<"R","e","l","a","t","o","r","i","o">>, <<>>>>,
      <<<<"O","b","r","a">>, <<"A","u","t","o","r">>>>,
      <<<<"T","i","t","u","l","o">>, <<"T","i","t","u","l","o">>>>,
      <<<<"1">>, <<"2">>>>,
      <<<<"Y","e","s","t","e","r","d","a","y">>, <<"P","a","u","l">>>>,
      <<<<"M","u","s","i","c","a">>, <<"I","n","t","e","r","p","r","e","t","e">>>> }

Sheets == UNION { [1..n -> SheetRows] : n \in 0..MaxSheetRows }

InitAudit ==
    /\ pc = "audit_start"
    /\ ScorerNormMatchIdle /\ SweepIdle /\ CleanIdle
    /\ config_json = <<>>
    /\ sheet \in Sheets
    /\ synonyms \in SynonymTables
    /\ scan_rows \in {2, DefaultHeaderScanRows}
    /\ headers0 = <<>> /\ res0 = <<>>
    /\ best_idx = <<>> /\ best_sc = 0
    /\ header_mode_used = "default0"
    /\ headers = <<>> /\ result = <<>>

AuditUnchanged == UNCHANGED <<scorevars, normvars, matchvars, sweepvars, config_json, cleanvars>>

has_title0 == res_get(res0, "title") # <<>>

has_people0 == res_get(res0, "artist") # <<>> \/ res_get(res0, "author") # <<>>

\* lines 135, 158-159: the sheet parsed with its first row as header
ParseDefault ==
    /\ pc = "audit_start"
    /\ headers0' = parse_headers(sheet, 0)
    /\ res0' = resolve_fields(parse_headers(sheet, 0), synonyms)
    /\ pc' = "audit_default"
    /\ UNCHANGED <<sheet, scan_rows, best_idx, best_sc, header_mode_used, headers, synonyms, result>>
    /\ AuditUnchanged

\* lines 168-169
DetectBestHeaderRow ==
    /\ pc = "audit_default"
    /\ should_detect_header_row(headers0, has_title0, has_people0)
    /\ LET d == detect_best_header_row(sheet, synonyms, scan_rows)
       IN  best_idx' = d.best_idx /\ best_sc' = d.best_score
    /\ pc' = "audit_detected"
    /\ UNCHANGED <<sheet, scan_rows, headers0, res0, header_mode_used, headers, synonyms, result>>
    /\ AuditUnchanged

\* lines 170-180
UseDetectedRow ==
    /\ pc = "audit_detected"
    /\ best_idx # <<>> /\ best_sc > header_quality_score(headers0, synonyms)
    /\ headers' = parse_headers(sheet, best_idx[1])
    /\ result' = resolve_fields(parse_headers(sheet, best_idx[1]), synonyms)
    /\ header_mode_used' = "detected_row"
    /\ pc' = "audit_headers"
    /\ UNCHANGED <<sheet, scan_rows, headers0, res0, best_idx, best_sc, synonyms>>
    /\ AuditUnchanged

\* lines 186-195
KeepDefaultHeaders ==
    /\ \/ pc = "audit_default" /\ ~should_detect_header_row(headers0, has_title0, has_people0)
       \/ pc = "audit_detected" /\ ~(best_idx # <<>> /\ best_sc > header_quality_score(headers0, synonyms))
    /\ headers' = headers0
    /\ result' = res0
    /\ pc' = "audit_headers"
    /\ UNCHANGED <<sheet, scan_rows, headers0, res0, best_idx, best_sc, header_mode_used, synonyms>>
    /\ AuditUnchanged

NextAudit == ParseDefault \/ DetectBestHeaderRow \/ UseDetectedRow \/ KeepDefaultHeaders

SpecAudit == InitAudit /\ [][NextAudit]_vars

\* the rows the detection scans, numbered from 0
Scanned == {i \in 0..(Len(sheet) - 1) : i < scan_rows}

RowScore(i) == header_quality_score(sheet[i + 1], synonyms)

\* C24: the detected row is the earliest row of the highest score among the
\* scanned rows, None when no row scores above 0; the caller takes it as
\* header row only if its score is greater than the default header row's,
\* and otherwise keeps the default headers and their resolution
C24_HeaderRowDetection ==
    /\ pc = "audit_detected" =>
          /\ best_idx = <<>> => (best_sc = 0 /\ \A i \in Scanned : RowScore(i) <= 0)
          /\ best_idx # <<>> =>
                /\ best_idx[1] \in Scanned
                /\ best_sc = RowScore(best_idx[1])
                /\ best_sc > 0
                /\ \A i \in Scanned : RowScore(i) <= best_sc
                /\ \A i \in Scanned : RowScore(i) = best_sc => best_idx[1] <= i
    /\ pc = "audit_headers" =>
          /\ header_mode_used \in {"default0", "detected_row"}
          /\ header_mode_used = "detected_row" =>
                /\ best_idx # <<>>
                /\ best_sc > header_quality_score(headers0, synonyms)
                /\ headers = parse_headers(sheet, best_idx[1])
                /\ result = resolve_fields(headers, synonyms)
          /\ (best_idx = <<>> \/ best_sc <= header_quality_score(headers0, synonyms)) =>
                header_mode_used = "default0"
          /\ header_mode_used = "default0" => (headers = headers0 /\ result = res0)

C24_Witness ==
    /\ pc = "audit_headers"
    /\ header_mode_used = "detected_row"
    /\ best_idx = <<1>>
    /\ \E i \in Scanned : i > 1 /\ RowScore(i) = best_sc
    /\ headers # headers0

\* a detected row that does not beat the default header row
C24_WitnessKept ==
    /\ pc = "audit_headers" /\ header_mode_used = "default0"
    /\ best_idx # <<>> /\ best_sc = header_quality_score(headers0, synonyms)

\* no scanned row scores above 0
C24_WitnessNone == pc = "audit_detected" /\ best_idx = <<>> /\ Len(sheet) > 0

----------------------------------------------------------------------------
(* row independence and shard merging of compute_entity_override_hits *)

\* the cells of the row at position p as they were passed in
InputCells(p) ==
    [c \in Range(df.columns) \ Range(HitColumnNames) |-> df.rows[p].cells[c]]

InputColumns == SelectSeq(df.columns, LAMBDA c : ~InSeq(c, HitColumnNames))

\* the rows at the positions S of the batch, in batch order, as a frame of
\* their own with the index 0..n-1 that read_csv gives it
Shard(S) ==
    LET RECURSIVE Pick(_)
        Pick(p) == IF p > Len(df.rows) THEN <<>>
                   ELSE (IF p \in S THEN <<InputCells(p)>> ELSE <<>>) \o Pick(p + 1)
        cs == Pick(1)
    IN  Frame(InputColumns, [k \in 1..Len(cs) |-> [label |-> k - 1, cells |-> cs[k]]])

\* the batch itself as it was passed in, with its index labels
Batch ==
    Frame(InputColumns, [p \in 1..Len(df.rows) |-> [label |-> df.rows[p].label, cells |-> InputCells(p)]])

Annotations(cells) == [c \in Range(HitColumnNames) |-> cells[c]]

\* the annotations the call gives the row at position p when the row is
\* passed alone
AnnotationsAlone(p) ==
    Annotations(compute_entity_override_hits(Shard({p}), overrides, SearchFields,
                    EvidenceFieldAliases, include_columns_matching).rows[1].cells)

ShardStats(S) ==
    stats(Shard(S), overrides, SearchFields, EvidenceFieldAliases, include_columns_matching)

\* the hit_count of an entity in a statistics frame, 0 when it has no row
HitCount(st, e) ==
    IF \E k \in 1..Len(st) : st[k].entity_norm = e
    THEN st[CHOOSE k \in 1..Len(st) : st[k].entity_norm = e].hit_count
    ELSE 0

\* the count of an entity for a field in its hit_field_breakdown, 0 when absent
FieldCount(st, e, f) ==
    LET rs == {k \in 1..Len(st) : st[k].entity_norm = e}
        b  == IF rs = {} THEN <<>> ELSE st[CHOOSE k \in rs : TRUE].hit_field_breakdown
        at == {i \in 1..Len(b) : b[i].field = f}
    IN  IF at = {} THEN 0 ELSE b[CHOOSE i \in at : TRUE].count

EntityNorms == {overrides[k].entity_norm : k \in 1..Len(overrides)}

\* every row's annotations are those the row gets when it is passed alone
RowsIndependent ==
    \A p \in 1..Len(df.rows) : Annotations(df.rows[p].cells) = AnnotationsAlone(p)

\* for every split of the batch in two shards, the counts of the batch are
\* the sums of the counts of the shards
ShardsMerge ==
    \A S \in SUBSET (1..Len(df.rows)) :
        LET s1 == ShardStats(S)
            s2 == ShardStats((1..Len(df.rows)) \ S)
        IN  \A e \in EntityNorms :
                /\ HitCount(stats_df, e) = HitCount(s1, e) + HitCount(s2, e)
                /\ \A f \in Range(InputColumns) :
                       FieldCount(stats_df, e, f) = FieldCount(s1, e, f) + FieldCount(s2, e, f)

\* C25: the entity-hit annotations of a row depend only on that row and the
\* overrides, not on the other rows of the batch or their order, and for any
\* split of a batch into shards each entity's hit_count and per-field
\* breakdown over the batch is the sum of its counts over the shards, an
\* entity absent from a shard's statistics counting as 0.
C25_IndependentAndMergeable ==
    pc = "hits" => (RowsIndependent /\ ShardsMerge)

\* the counts merge whatever the index labels
C25_ShardsMerge ==
    pc = "hits" => ShardsMerge

\* on a batch whose index is 0..n-1 in row order the rows are independent too
C25_RangeIndexIndependent ==
    (pc = "hits" /\ RangeIndexed(df)) => RowsIndependent

\* a batch of two rows with a hit in each, split between two shards
C25_WitnessShards ==
    /\ pc = "hits" /\ Len(df.rows) = 2
    /\ \E e \in EntityNorms : HitCount(stats_df, e) = 2 /\ HitCount(ShardStats({1}), e) = 1
    /\ \E e \in EntityNorms : HitCount(stats_df, e) = 1 /\ HitCount(ShardStats({1}), e) = 0

\* the ScoreResult of a row, however many rows were scored before it, is
\* score_one of that row on the index as built from the reference and the
\* config as loaded
C25_ScoreIndependent ==
    pc = "scored" =>
        /\ ref_idx = build_ref_index(ref)
        /\ cfg = load_config(config_json[1])
        /\ res = score_one(row, build_ref_index(ref), load_config(config_json[1]))

----------------------------------------------------------------------------
(* attribution of the hits to the rows *)

\* the four columns as computed from the (entity, field) pairs that match the
\* values of the row at position p itself
OwnHitColumns(p) ==
    LET fields == available_fields(Batch, SearchFields, EvidenceFieldAliases,
                                   include_columns_matching)
    IN  hit_columns(overrides, fields,
                    row_hits([label |-> df.rows[p].label, cells |-> InputCells(p)],
                             overrides, fields))

AttributedToOwnRow ==
    \A p \in 1..Len(df.rows) : Annotations(df.rows[p].cells) = OwnHitColumns(p)

\* C27: whatever the index labels or row order of the input frame (an index
\* that is a permutation of 0..n-1), the four entity_override columns of
\* each row are computed from that row's own values and not from the row at
\* another position.
C27_HitsAttributedToOwnRow ==
    pc = "hits" => AttributedToOwnRow

\* the attribution is right on a frame whose index is 0..n-1 in row order
C27_RangeIndexAttribution ==
    (pc = "hits" /\ RangeIndexed(df)) => AttributedToOwnRow

----------------------------------------------------------------------------
(* which rows apply_noisy_entity_controls removes *)

\* the entity has requires_coevidence or per_term_cap set
IsControlled(ent) == ent.requires_coevidence # 0 \/ ent.per_term_cap # <<>>

\* some entity recorded in the row's entity_override_entities is controlled
RecordsControlled(r) == \E ent \in Overrides : IsControlled(ent) /\ HitEntity(r.cells, ent)

\* the number of times the row, with its values unchanged, is in the result
TimesRetained(r) == Cardinality({p \in 1..Len(df.rows) : df.rows[p] = r})

\* C28: apply_noisy_entity_controls removes a row only if an entity recorded
\* in its entity_override_entities list is controlled; rows whose recorded
\* entities are all uncontrolled are retained, also when an uncontrolled
\* entity's name contains a controlled entity's name, and every retained row
\* keeps its column values and appears exactly once.
C28_RemovesOnlyControlledHits ==
    pc = "sweep_controlled" =>
        /\ \A r \in ControlledRows : ~RecordsControlled(r) => TimesRetained(r) = 1
        /\ \A p \in 1..Len(df.rows) :
               df.rows[p] \in ControlledRows /\ TimesRetained(df.rows[p]) = 1

\* what the code does: a row is removed only if the text of its
\* entity_override_entities cell contains the name of an entity the loop
\* treats as controlled, and the retained rows are unchanged and unique
C28_RemovesOnlyMaskedRows ==
    pc = "sweep_controlled" =>
        /\ \A r \in ControlledRows :
               TimesRetained(r) = 0 =>
                   \E ent \in Overrides :
                       /\ ent.requires_coevidence # 0 \/ has_cap(ent)
                       /\ entity_mask(r.cells, ent)
        /\ \A p \in 1..Len(df.rows) :
               df.rows[p] \in ControlledRows /\ TimesRetained(df.rows[p]) = 1

----------------------------------------------------------------------------
(* Consistency of the ScoreResult *)

Tiers == {"Gold", "Silver", "Bronze"}

\* the overlap of the row's artist tokens with a candidate's evidence tokens
RowOverlap(c) == overlap(tokenize(RowArtistNorm), c)

\* the result reports the first title candidate of maximal overlap
BackedByBestOverlap ==
    \E i \in 1..Len(TitleCands) :
        /\ BackedBy(TitleCands[i])
        /\ \A j \in 1..Len(TitleCands) : RowOverlap(TitleCands[j]) <= RowOverlap(TitleCands[i])
        /\ \A j \in 1..(i - 1) : RowOverlap(TitleCands[j]) < RowOverlap(TitleCands[i])

NoEntryReported ==
    res.ref_title_norm = None /\ res.ref_isrc = None /\ res.ref_iswc = None

ConsistentResult ==
    /\ res.matched <=> res.tier \in Tiers
    /\ res.tier \in Tiers \cup {"NoMatch"}
    /\ res.matched =>
          /\ res.ref_match_count >= 1
          /\ HasFlag("ISRC_MATCH") \/ HasFlag("ISWC_MATCH") \/ HasFlag("TITLE_EXACT")
          /\ HasFlag("ISRC_MATCH") =>
                /\ BackedBy(ref_idx.isrc[RowIsrcKey][1])
                /\ res.ref_match_count = Len(ref_idx.isrc[RowIsrcKey])
          /\ HasFlag("ISWC_MATCH") =>
                /\ BackedBy(ref_idx.iswc[RowIswcKey][1])
                /\ res.ref_match_count = Len(ref_idx.iswc[RowIswcKey])
          /\ HasFlag("TITLE_EXACT") =>
                /\ res.ref_match_count = Len(TitleCands)
                /\ IF HasFlag("ARTIST_TOKEN_OVERLAP")
                   THEN BackedByBestOverlap
                   ELSE BackedBy(TitleCands[1])
    /\ res.tier = "NoMatch" => NoEntryReported

\* the step of score_one leaves the row, the index and the config as they were
ScoreStepMutatesNothing ==
    pc = "row" => (row' = row /\ ref_idx' = ref_idx /\ cfg' = cfg /\ ref' = ref)

\* C29: every ScoreResult is consistent: matched iff the tier is Gold, Silver
\* or Bronze; when matched ref_match_count >= 1, the flags hold ISRC_MATCH,
\* ISWC_MATCH or TITLE_EXACT and the reported reference fields are those of
\* the first entry of the matched key (ID and title-only matches) or of the
\* first entry of maximal token overlap (artist-corroborated matches); a
\* NoMatch reports no entry; score_one mutates neither row, index nor config.
C29_ConsistentResult ==
    [](Scored => ConsistentResult) /\ [][ScoreStepMutatesNothing]_vars

\* an artist-corroborated match backed by the second candidate, whose
\* overlap is the larger
C29_Witness ==
    /\ Scored /\ res.matched /\ HasFlag("ARTIST_TOKEN_OVERLAP")
    /\ Len(TitleCands) = 2
    /\ RowOverlap(TitleCands[2]) > RowOverlap(TitleCands[1])
    /\ BackedBy(TitleCands[2]) /\ ~BackedBy(TitleCands[1])

\* a title-only match and an ID match
C29_WitnessTitleOnly ==
    Scored /\ res.tier = "Bronze" /\ Len(TitleCands) = 2 /\ TitleCands[1] # TitleCands[2]

C29_WitnessNoMatchWithCandidates ==
    Scored /\ res.tier = "NoMatch" /\ res.ref_match_count = 2

----------------------------------------------------------------------------
(* Identifier lookup *)

\* trimmed, lower-cased, runs of whitespace collapsed: written out here, not
\* taken from the model of norm_text
Trimmed(s) ==
    LET keep == {i \in 1..Len(s) : ~IsSpace(s[i])}
    IN  IF keep = {} THEN <<>> ELSE SubSeq(s, SetMin(keep), SetMax(keep))

Collapsed(s) ==
    LET t == Trimmed(s)
        kept == {i \in 1..Len(t) : ~(IsSpace(t[i]) /\ i > 1 /\ IsSpace(t[i - 1]))}
        RECURSIVE Build(_)
        Build(i) == IF i > Len(t) THEN <<>>
                    ELSE (IF i \in kept THEN <<IF IsSpace(t[i]) THEN " " ELSE LowerChar(t[i])>> ELSE <<>>)
                         \o Build(i + 1)
    IN  Build(1)

\* the identifier the row offers: the isrc column, else isrc_raw
RowIsrcText == Or(DictGet(row, "isrc", <<>>), DictGet(row, "isrc_raw", <<>>))
RowIswcText == Or(DictGet(row, "iswc", <<>>), DictGet(row, "iswc_raw", <<>>))

\* the reference entries that are indexed by ISRC / ISWC
IsrcIndexedEntries == {i \in 1..Len(ref) : is_isrc(ref[i].isrc)}
IswcIndexedEntries == {i \in 1..Len(ref) : is_iswc(ref[i].iswc)}

IsrcEqual == \E i \in IsrcIndexedEntries : Collapsed(RowIsrcText) = Collapsed(ref[i].isrc)
IswcEqual == \E i \in IswcIndexedEntries : Collapsed(RowIswcText) = Collapsed(ref[i].iswc)

\* the letters and digits of an identifier, its separators left out
Compact(s) == SelectSeq(Collapsed(s), LAMBDA ch : ch \notin {"-", " "})

\* C30: a row identifier matches an indexed one iff the two are equal after
\* trimming, lowercasing and whitespace collapse only; the same ISRC written
\* with other optional separators is a different key and gives no ISRC_MATCH.
C30_IdentifierLookup ==
    Scored =>
        /\ HasFlag("ISRC_MATCH") <=> IsrcEqual
        /\ HasFlag("ISWC_MATCH") <=> (~IsrcEqual /\ IswcEqual)

\* a row ISRC in upper case between a blank and a tab matches the entry
\* indexed in lower case
C30_Witness ==
    /\ Scored /\ HasFlag("ISRC_MATCH")
    /\ RowIsrcText # Collapsed(RowIsrcText)
    /\ \A i \in IsrcIndexedEntries : RowIsrcText # ref[i].isrc
    /\ Len(RowIsrcText) > Len(Collapsed(RowIsrcText))

\* a well-formed row ISRC without separators, the same code as an indexed
\* one written with hyphens: no ISRC_MATCH
C30_WitnessSeparators ==
    /\ Scored /\ is_isrc(RowIsrcText) /\ ~HasFlag("ISRC_MATCH")
    /\ \E i \in IsrcIndexedEntries : Compact(RowIsrcText) = Compact(ref[i].isrc)

----------------------------------------------------------------------------
(* scripts/clean_header_synonyms_yaml.py *)

\* s.rstrip()
RStrip(s) ==
    LET keep == {i \in 1..Len(s) : ~IsSpace(s[i])}
    IN  IF keep = {} THEN <<>> ELSE SubSeq(s, 1, SetMax(keep))

\* re.sub(r"\s*\(\s*\d+\s*\)\s*$", "", s) on a stripped string: a final
\* "(digits)", blanks allowed around the digits, goes with the blanks before it
remove_artifact(s) ==
    LET n == Len(s)
        inner(o) ==
            /\ \A i \in (o + 1)..(n - 1) : IsSpace(s[i]) \/ IsDigitRe(s[i])
            /\ \E i \in (o + 1)..(n - 1) : IsDigitRe(s[i])
            /\ \A a, b, c \in (o + 1)..(n - 1) :
                   (a < b /\ b < c /\ IsDigitRe(s[a]) /\ IsDigitRe(s[c])) => IsDigitRe(s[b])
        opens == {o \in 1..(n - 1) : s[o] = "(" /\ inner(o)}
    IN  IF n = 0 \/ s[n] # ")" \/ opens = {} THEN s
        ELSE RStrip(SubSeq(s, 1, SetMax(opens) - 1))

normalize_syn(s) ==
    LET s0 == IF s = None THEN <<>> ELSE s
    IN  Strip(SubWs(NonAlnumSub(strip_accents(CaseFold(remove_artifact(Strip(s0)))))))

AuthorWords == {<<"a","u","t","o","r">>, <<"a","u","t","o","r","e","s">>, <<"c","o","m","p","o","s","i","t","o","r">>, <<"c","o","m","p","o","s","i","t","o","r","e","s">>, <<"c","o","m","p","o","s","e","r">>}

RightsholderWords ==
    {<<"t","i","t","u","l","a","r">>, <<"t","i","t","u","l","a","r","e","s">>, <<"d","i","r","e","i","t","o","s">>, <<"e","d","i","t","o","r","a">>, <<"e","d","i","t","o","r","a","s">>, <<"p","u","b","l","i","s","h","e","r">>,
     <<"o","w","n","e","r">>, <<"p","r","o","p","r","i","e","t">>}

ArtistWords == {<<"a","r","t","i","s","t","a">>, <<"i","n","t","e","r","p","r","e","t","e">>, <<"b","a","n","d","a">>}

DateWords == {<<"d","a","t","a">>, <<"h","o","r","a">>, <<"t","i","m","e","s","t","a","m","p">>, <<"t","i","m","e">>, <<"e","x","i","b">>}

\* re.search(r"\b(w1|w2|...)\b", syn_norm) on a normalized string finds a
\* whole word of it
preferred_field_for(syn_norm) ==
    LET words == split_set(syn_norm)
    IN  IF words \cap AuthorWords # {} THEN <<"a","u","t","h","o","r">>
        ELSE IF words \cap RightsholderWords # {} THEN <<"r","i","g","h","t","s","h","o","l","d","e","r","_","o","w","n","e","r">>
        ELSE IF words \cap ArtistWords # {} THEN <<"a","r","t","i","s","t">>
        ELSE IF words \cap DateWords # {} THEN <<"d","a","t","e">>
        ELSE None

\* TOP_KEY_RX.match(ln).group(1), None without a match
top_key(ln) ==
    LET colons == {i \in 1..Len(ln) : ln[i] = ":"}
        c == SetMin(colons)
    IN  IF colons = {} THEN None
        ELSE IF /\ c > 1
                /\ \A i \in 1..(c - 1) : ln[i] \in AsciiLower \cup AsciiUpper \cup AsciiDigit \cup {"_"}
                /\ \A i \in (c + 1)..Len(ln) : IsSpace(ln[i])
             THEN SubSeq(ln, 1, c - 1)
             ELSE None

\* LIST_ITEM_RX.match(ln).group(1) as a list of one str, empty without a match
list_item(ln) ==
    IF Len(ln) >= 4 /\ IsSpace(ln[1]) /\ IsSpace(ln[2]) /\ ln[3] = "-" /\ IsSpace(ln[4])
    THEN LET rest == {i \in 5..Len(ln) : ~IsSpace(ln[i])}
         IN  << IF rest = {} THEN <<>> ELSE SubSeq(ln, SetMin(rest), Len(ln)) >>
    ELSE <<>>

\* data.setdefault(k, []) and data[k].append(item) on an OrderedDict
SetDefaultEmpty(data, k) == IF HasKey(data, k) THEN data ELSE Append(data, [k |-> k, v |-> <<>>])

AppendItem(data, k, item) ==
    [i \in 1..Len(data) |-> IF data[i].k = k THEN [k |-> k, v |-> Append(data[i].v, item)] ELSE data[i]]

\* the loop of parse_simple_yaml from line i on
RECURSIVE parse_lines(_, _, _, _, _)
parse_lines(lines, i, cur_key, header_comments, data) ==
    IF i > Len(lines) THEN [header_comments |-> header_comments, data |-> data]
    ELSE LET ln == lines[i]
             st == Strip(ln)
         IN  IF cur_key = None /\ (st = <<>> \/ st[1] = "#")
             THEN parse_lines(lines, i + 1, cur_key, Append(header_comments, ln), data)
             ELSE IF top_key(ln) # None
             THEN parse_lines(lines, i + 1, top_key(ln), header_comments,
                              SetDefaultEmpty(data, top_key(ln)))
             ELSE IF list_item(ln) # <<>> /\ cur_key # None
             THEN parse_lines(lines, i + 1, cur_key, header_comments,
                              AppendItem(data, cur_key, list_item(ln)[1]))
             ELSE parse_lines(lines, i + 1, cur_key, header_comments, data)

parse_simple_yaml(lines) == parse_lines(lines, 1, None, <<>>, <<>>)

\* the lines of the file written: "\n".join(out_lines).rstrip() + "\n"
written_lines(out_lines) ==
    LET keep == {i \in 1..Len(out_lines) : Strip(out_lines[i]) # <<>>}
    IN  IF keep = {} THEN << <<>> >>
        ELSE [i \in 1..SetMax(keep) |->
                 IF i = SetMax(keep) THEN RStrip(out_lines[i]) ELSE out_lines[i]]

RECURSIVE field_lines(_, _)
field_lines(data, i) ==
    IF i > Len(data) THEN <<>>
    ELSE << data[i].k \o <<":">> >>
         \o [j \in 1..Len(data[i].v) |-> <<" ", " ", "-", " ">> \o data[i].v[j]]
         \o << <<>> >>
         \o field_lines(data, i + 1)

write_simple_yaml(header_comments, data) ==
    LET head_lines == IF header_comments = <<>> THEN <<>>
                      ELSE IF Strip(header_comments[Len(header_comments)]) # <<>>
                      THEN Append(header_comments, <<>>)
                      ELSE header_comments
    IN  written_lines(head_lines \o field_lines(data, 1))

\* the elements of a list in order, each at its first occurrence only
RECURSIVE unique_in_order(_)
unique_in_order(s) ==
    IF s = <<>> THEN <<>>
    ELSE LET init == unique_in_order(SubSeq(s, 1, Len(s) - 1))
             x == s[Len(s)]
         IN  IF InSeq(x, init) THEN init ELSE Append(init, x)

\* buckets[field]: the normalized synonyms of the field, blanks and repeats
\* left out
bucket(items) ==
    unique_in_order(SelectSeq([i \in 1..Len(items) |-> normalize_syn(items[i])],
                              LAMBDA syn : syn # <<>>))

\* the (field, synonym) pairs in the order the loops meet them
RECURSIVE encounters(_, _)
encounters(data_raw, i) ==
    IF i > Len(data_raw) THEN <<>>
    ELSE LET b == bucket(data_raw[i].v)
         IN  [j \in 1..Len(b) |-> [field |-> data_raw[i].k, syn |-> b[j]]]
             \o encounters(data_raw, i + 1)

\* seen_global[syn]: set at the first encounter of syn to
\* preferred_field_for(syn) or field
seen_global(enc, syn) ==
    LET first == enc[SetMin({j \in 1..Len(enc) : enc[j].syn = syn})]
    IN  Or(preferred_field_for(syn), first.field)

\* lines 138-181
main(lines) ==
    LET parsed   == parse_simple_yaml(lines)
        data_raw == parsed.data
        enc      == encounters(data_raw, 1)
        final_per_field(field) ==
            unique_in_order(
                [j \in 1..Len(SelectSeq(enc, LAMBDA e : seen_global(enc, e.syn) = field)) |->
                    SelectSeq(enc, LAMBDA e : seen_global(enc, e.syn) = field)[j].syn])
        data_norm == [i \in 1..Len(data_raw) |->
                         [k |-> data_raw[i].k, v |-> final_per_field(data_raw[i].k)]]
    IN  write_simple_yaml(parsed.header_comments, data_norm)

\* the input file holds at most MaxFields field blocks
MaxFields == 2

\* the comment lines at the head of the file
YamlHeaders == { <<>>, << <<"#"," ","s","y","n","o","n","y","m","s">> >>, << <<"#"," ","s","y","n","o","n","y","m","s">>, <<>> >> }

\* field blocks: a key line and its item lines (a repeated synonym, "(2)"
\* artifacts, an accent, a synonym without letters, a line of another shape,
\* a key that comes twice, an empty list)
YamlBlocks ==
    { << <<"t","i","t","l","e",":">>, <<" "," ","-"," ","O","b","r","a">>, <<" "," ","-"," ","A","u","t","o","r"," ","d","a"," ","O","b","r","a">>, <<" "," ","-"," ","O","B","R","A"," ","(","2",")">> >>,
      << <<"a","u","t","h","o","r",":">>, <<" "," ","-"," ","A","u","t","o","r">>, <<" "," ","-"," ","C","o","m","p","o","s","i","t","o","r"," ","(","a",")">>, <<" "," ","-"," ","O","b","r","a">> >>,
      << <<"a","r","t","i","s","t",":">>, <<" "," ","-"," ","I","n","t","U+00E9","r","p","r","e","t","e">>, <<" "," ","-"," ","d","a","t","a"," ","e","x","i","b">>, <<" "," ","-"," ","-","-">> >>,
      << <<"t","i","t","l","e",":"," "," ">>, <<" "," ","-"," "," "," ","N","o","m","e"," "," ">>, <<" "," ","-"," ","B","a","n","d","a"," ","d","o"," ","A","u","t","o","r"," ","("," ","1","2"," ",")">> >>,
      << <<"d","a","t","e",":">>, <<" "," ","-"," ","D","a","t","a">>, <<"w","h","a","t">>, <<" "," ","-"," ","h","o","r","a">>, <<" "," ","-"," ","I","n","t","U+00E9","r","p","r","e","t","e">> >>,
      << <<"r","i","g","h","t","s","h","o","l","d","e","r","_","o","w","n","e","r",":">> >> }

RECURSIVE Flatten(_)
Flatten(ss) == IF ss = <<>> THEN <<>> ELSE Head(ss) \o Flatten(Tail(ss))

YamlFiles ==
    { h \o Flatten(bs) :
        h \in YamlHeaders,
        bs \in UNION { [1..n -> YamlBlocks] : n \in 0..MaxFields } }

InitClean ==
    /\ pc = "clean_args"
    /\ ScorerNormMatchIdle /\ SweepIdle /\ ResolveIdle
    /\ config_json = <<>> /\ AuditIdle
    /\ yaml_in \in YamlFiles
    /\ yaml_out = <<>>
    /\ yaml_out2 = <<>>

\* main() with --in the file and --out the file written
CleanMain ==
    /\ pc = "clean_args"
    /\ yaml_out' = main(yaml_in)
    /\ pc' = "cleaned"
    /\ UNCHANGED <<scorevars, normvars, matchvars, sweepvars, resolvevars, config_json,
                   auditvars, yaml_in, yaml_out2>>

\* main() again, with --in the file it wrote
CleanMainAgain ==
    /\ pc = "cleaned"
    /\ yaml_out2' = main(yaml_out)
    /\ pc' = "cleaned_twice"
    /\ UNCHANGED <<scorevars, normvars, matchvars, sweepvars, resolvevars, config_json,
                   auditvars, yaml_in, yaml_out>>

NextClean == CleanMain \/ CleanMainAgain

SpecClean == InitClean /\ [][NextClean]_vars

----------------------------------------------------------------------------
(* Claims about the synonym-table cleaner *)

Cleaned == pc \in {"cleaned", "cleaned_twice"}

\* the fields and synonyms of the input file and of the file written
DataIn == parse_simple_yaml(yaml_in).data

DataOut == parse_simple_yaml(yaml_out).data

\* the places (field position, item position) of a synonym in a table
PlacesOf(data, syn) ==
    {q \in UNION {{<<i, j>> : j \in 1..Len(data[i].v)} : i \in 1..Len(data)} :
        data[q[1]].v[q[2]] = syn}

\* the normalized synonyms of the input that are not blank
SynonymsIn ==
    UNION {{normalize_syn(DataIn[i].v[j]) : j \in 1..Len(DataIn[i].v)} : i \in 1..Len(DataIn)}
        \ {<<>>}

SynonymsOut == UNION {{DataOut[i].v[j] : j \in 1..Len(DataOut[i].v)} : i \in 1..Len(DataOut)}

\* the field of the input under which the synonym comes first in file order
FirstFieldOf(syn) ==
    LET i == SetMin({k \in 1..Len(DataIn) :
                        \E j \in 1..Len(DataIn[k].v) : normalize_syn(DataIn[k].v[j]) = syn})
    IN  DataIn[i].k

\* the field the claim places the synonym in
PlaceOf(syn) ==
    IF preferred_field_for(syn) # None THEN preferred_field_for(syn) ELSE FirstFieldOf(syn)

AtMostOneField == \A syn \in SynonymsOut : Cardinality(PlacesOf(DataOut, syn)) = 1

NoneLost == SynonymsIn \subseteq SynonymsOut

PlacedByPreference ==
    /\ SynonymsOut \subseteq SynonymsIn
    /\ \A syn \in SynonymsOut :
           \A q \in PlacesOf(DataOut, syn) : DataOut[q[1]].k = PlaceOf(syn)

Idempotent == pc = "cleaned_twice" => yaml_out2 = yaml_out

\* C26: after the cleaner runs every normalized synonym is under at most
\* one field and no synonym of the input is lost; a synonym is placed by the
\* preference author > rightsholder_owner > artist > date decided by its
\* keywords, else it stays in the field where it came first in file order;
\* running the cleaner on its own output changes nothing.
C26_CleanerKeepsEverySynonymOnce ==
    Cleaned => (AtMostOneField /\ NoneLost /\ PlacedByPreference /\ Idempotent)

\* what holds on the code: everything but "no synonym is lost"
C26_OncePlacedIdempotent ==
    Cleaned => (AtMostOneField /\ PlacedByPreference /\ Idempotent)

\* the synonyms that are lost are those whose preferred field is not a key
\* of the file
C26_LostWithoutPreferredField ==
    Cleaned =>
        \A syn \in SynonymsIn :
            syn \notin SynonymsOut <=> ~HasKey(DataIn, PlaceOf(syn))

\* a synonym moved to its preferred field from the field it came first in,
\* and a synonym of two fields kept in the first
C26_WitnessMoved ==
    /\ pc = "cleaned_twice"
    /\ \E syn \in SynonymsOut : preferred_field_for(syn) # None /\ FirstFieldOf(syn) # PlaceOf(syn)
    /\ \E syn \in SynonymsOut :
          /\ preferred_field_for(syn) = None
          /\ \E i \in 1..Len(DataIn) :
                DataIn[i].k # FirstFieldOf(syn) /\ \E j \in 1..Len(DataIn[i].v) : normalize_syn(DataIn[i].v[j]) = syn

C26_WitnessLost ==
    pc = "cleaned" /\ SynonymsIn \ SynonymsOut # {}

====
